---- MODULE Spec2Model ----
(***************************************************************************)
(* DocuMind: the hybrid retrieval engine (Chunk Store, Dense Index, the    *)
(* bounded in-memory BM25 corpus) of backend/services/retriever.py and the *)
(* streaming answer pipeline of backend/services/llm_chain.py with its     *)
(* HTTP layer in backend/main.py.                                          *)
(***************************************************************************)
EXTENDS Integers, Sequences, FiniteSets, TLC

(* ------------------------------ bounds -------------------------------- *)
\* chunks ingested over one run of the model
MaxChunks == 3
\* chunks produced by one upload
MaxBatch == 2
\* largest configured DOCUMIND_BM25_MAX_DOCS (0 stands for a non-positive value)
MaxCap == 1
\* process restarts over one run of the model
MaxRestarts == 1
\* characters the model sends after the marker in a marker text, beyond the first
MaxTail == 10
\* retrieved chunks handed to stream_answer_events
MaxDocs == 4
\* tool_call_chunks of one model stream
MaxFrags == 3
\* worker threads that run _append_documents_to_sparse_store at the same time
MaxWriters == 2
\* chunks of one concurrent append call
MaxAppendBatch == 2
\* lines of the store file handed to the reader
MaxLines == 3
\* _initialize_retriever_from_disk calls in a row
MaxRebuilds == 2
\* chat_stream requests in flight at the same time
MaxInFlight == 2
\* chat_stream requests started over one run of the model
MaxRequests == 3

\* chunks that the two retrievers can return
MaxHits == 3

\* parts of a message content that is a list
MaxParts == 2

\* token events of one stream, as event_generator sees them
MaxTokens == 2

\* chat_stream requests served one after the other
MaxTurns == 2

(* ------------------------- program constants -------------------------- *)
\* the default of _coerce_positive_int(_settings.documind_bm25_max_docs, 5000)
DefaultBM25MaxDocs == 5000
\* _fallback_citations_from_docs(retrieved_docs, max_items=3)
MaxFallbackItems == 3
\* snippet[:600]
SnippetMax == 600
\* main.MAX_CHAT_HISTORY_MESSAGES_PER_SESSION
MAX_CHAT_HISTORY_MESSAGES_PER_SESSION == 20
\* main.MAX_IN_MEMORY_SESSIONS
MAX_IN_MEMORY_SESSIONS == 200

\* main.py: MIN_CHUNK_SIZE, MAX_CHUNK_SIZE, MIN_CHUNK_OVERLAP, MAX_CHUNK_OVERLAP
MIN_CHUNK_SIZE == 400

MAX_CHUNK_SIZE == 2200

MIN_CHUNK_OVERLAP == 50

MAX_CHUNK_OVERLAP == 400

\* main.py: the defaults of the X-Chunk-Size and X-Chunk-Overlap headers
DEFAULT_CHUNK_SIZE == 1000

DEFAULT_CHUNK_OVERLAP == 150

\* main.py: MIN_RETRIEVER_K, MAX_RETRIEVER_K
MIN_RETRIEVER_K == 2

MAX_RETRIEVER_K == 8

\* main.py: MIN_DENSE_WEIGHT, MAX_DENSE_WEIGHT, DEFAULT_DENSE_WEIGHT, in thousandths
MIN_DENSE_WEIGHT == 200

MAX_DENSE_WEIGHT == 800

DEFAULT_DENSE_WEIGHT == 500

VARIABLES
    settings,        \* config.Settings: dense_enabled, bm25_enabled, bm25_max_docs, warm
    store,           \* documind_chunks.jsonl: the record lines, in file order
    dense,           \* the Chroma collection: the chunk ids upserted
    bm25_documents,  \* retriever._bm25_documents
    store_has_docs,  \* retriever._store_has_docs: "None", "True" or "False"
    ingested,        \* chunk ids handed out so far (chunk i is the i-th ingested)
    bm25_ingested,   \* history: the chunks passed to maybe_add_documents_to_bm25 since process start
    restarts,        \* process restarts so far
    up,              \* the upload_document request in flight
    q,               \* the _retrieve_documents call in flight (worker thread)
    warm,            \* the lifespan warm-up task
    model_text,      \* the answer text the model has still to send, as characters
    model_tools,     \* the tool_call_chunks the model has still to send
    retrieved_docs,  \* stream_answer_events' retrieved_docs, in rank order
    streamed_text_buffer,        \* local of stream_answer_events
    emitted_length,              \* local of stream_answer_events
    tool_call_argument_buffers,  \* local of stream_answer_events: index -> pieces
    stream_pc,       \* "idle", "streaming", "done" (final yielded) or "raised"
    events,          \* what stream_answer_events has yielded so far
    http,            \* chat_stream and its event_generator
    appenders,       \* the _append_documents_to_sparse_store calls in flight, one per worker thread
    raw_file,        \* documind_chunks.jsonl as the pieces written to it, in file order
    reader,          \* the last _extract_documents_from_sparse_store call: argument and outcome
    rebuilds,        \* history: _bm25_documents after each _initialize_retriever_from_disk call
    session_store,   \* main.session_store: the sessions in insertion order, each with its history
    requests,        \* the chat_stream requests in flight
    finished,        \* history: the last request that ran the end of event_generator
    chat,            \* the chat request (non-streaming path)
    runtime,         \* one retrieval: headers, RuntimeConfig, the two result lists, the fusion
    side,            \* the side channel of one stream: the fragments sent, the buffers, the parse
    reform,          \* chat_stream up to the end of retrieval: reformulation, retrieval, errors
    turn,            \* one chat_stream request from its start to the write of session_store
    fmt              \* one retrieved chunk: its metadata, its context header, its fallback citation

rvars == <<settings, store, dense, bm25_documents, store_has_docs, ingested,
           bm25_ingested, restarts, up, q, warm>>

svars == <<model_text, model_tools, retrieved_docs, streamed_text_buffer,
           emitted_length, tool_call_argument_buffers, stream_pc, events, http>>

xvars == <<appenders, raw_file, reader, rebuilds, session_store,
           requests, finished, chat>>

yvars == <<runtime, side, reform, turn, fmt>>

vars == <<rvars, svars, xvars, yvars>>

(* ------------------------------ helpers ------------------------------- *)
Min(a, b) == IF a <= b THEN a ELSE b

Max(a, b) == IF a >= b THEN a ELSE b

\* s[:n]
Take(s, n) == SubSeq(s, 1, Min(Len(s), Max(0, n)))

\* s[n:]  (n >= 0)
Drop(s, n) == SubSeq(s, Min(Len(s), n) + 1, Len(s))

\* the last n elements of s
LastN(s, n) == Drop(s, Max(0, Len(s) - n))

Range(s) == {s[i] : i \in 1..Len(s)}

\* the elements of a finite set of integers, ascending
RECURSIVE SortedSeq(_)
SortedSeq(S) ==
    IF S = {} THEN <<>>
    ELSE LET m == CHOOSE x \in S : \A y \in S : x <= y
         IN <<m>> \o SortedSeq(S \ {m})

(* ----------------------------- retriever.py --------------------------- *)
_coerce_positive_int(value, default) == IF value <= 0 THEN default ELSE value

\* the cap M of the in-memory corpus
BM25Cap == _coerce_positive_int(settings.bm25_max_docs, DefaultBM25MaxDocs)

_dense_retrieval_enabled == settings.dense_enabled

\* main.get_embeddings_model(): None (FALSE) exactly when dense retrieval is disabled
get_embeddings_model == settings.dense_enabled

\* one line of the store file. kind "record": the complete JSON record of chunk
\* id, newline-terminated; "torn": the incomplete record a failed write left at
\* the end of the file, with no newline; "garbage": a torn fragment followed, on
\* the same line, by the record of chunk id that the next append wrote after it.
\* Lines that only another writer of the file can produce: "nometa": a record
\* whose metadata is not an object; "blank": an empty or whitespace line;
\* "nonstring": a JSON object whose page_content is missing, not a string or
\* blank; "nonobject": a JSON value that is not an object ([], null, 12, "x")
Line(id, kind) == [id |-> id, kind |-> kind]

\* json.loads succeeds and page_content is a non-blank string
IsValidRecord(r) == r.kind \in {"record", "nometa"}

\* the file after handle.write(json.dumps(record)); handle.write("\n") for chunk id:
\* the bytes go right after the last byte of the file (mode "a")
WriteRecord(file, id) ==
    IF Len(file) > 0 /\ file[Len(file)].kind = "torn"
    THEN [file EXCEPT ![Len(file)] = Line(id, "garbage")]
    ELSE Append(file, Line(id, "record"))

\* the file after a write of chunk id's record that fails part-way
WriteTorn(file, id) ==
    IF Len(file) > 0 /\ file[Len(file)].kind = "torn"
    THEN file
    ELSE Append(file, Line(id, "torn"))

\* the chunk ids recorded in the Chunk Store, in storage order
StoredChunks == [i \in 1..Len(SelectSeq(store, IsValidRecord)) |->
                    SelectSeq(store, IsValidRecord)[i].id]

\* the `for line in handle` loop of _extract_documents_from_sparse_store from
\* line i on. limit is <<>> for None and <<n>> for the number n. The result is
\* the list returned, or raised = TRUE when payload.get fails with
\* AttributeError on a JSON value that is not an object (not caught: the
\* function catches json.JSONDecodeError and OSError only)
RECURSIVE ReadLoop(_, _, _, _)
ReadLoop(file, i, limit, documents) ==
    IF i > Len(file) THEN [raised |-> FALSE, documents |-> documents]
    ELSE IF limit # <<>> /\ Len(documents) >= limit[1]
    THEN [raised |-> FALSE, documents |-> documents]
    ELSE IF file[i].kind = "blank" THEN ReadLoop(file, i + 1, limit, documents)
    ELSE IF file[i].kind \in {"torn", "garbage"}
    THEN ReadLoop(file, i + 1, limit, documents)
    ELSE IF file[i].kind = "nonobject" THEN [raised |-> TRUE, documents |-> <<>>]
    ELSE IF file[i].kind = "nonstring" THEN ReadLoop(file, i + 1, limit, documents)
    ELSE ReadLoop(file, i + 1, limit, Append(documents, file[i].id))

\* limit = None if max_documents is None else max(0, int(max_documents))
ReadLimit(max_documents) ==
    IF max_documents = <<>> THEN <<>> ELSE <<Max(0, max_documents[1])>>

\* _extract_documents_from_sparse_store(max_documents): [] when the file does
\* not exist, else the outcome of the loop
SparseStoreRead(exists, file, max_documents) ==
    IF ~exists THEN [raised |-> FALSE, documents |-> <<>>]
    ELSE ReadLoop(file, 1, ReadLimit(max_documents), <<>>)

\* _extract_documents_from_sparse_store(max_documents=limit) for a file in which
\* every JSON value is an object: the first `limit` valid records, in file order
_extract_documents_from_sparse_store(file, limit) ==
    SparseStoreRead(TRUE, file, <<limit>>).documents

\* _sparse_store_has_documents(): some line of the file is not blank
_sparse_store_has_documents(file) == \E i \in 1..Len(file) : file[i].kind # "blank"

\* _detect_vector_store_has_documents()
_detect_vector_store_has_documents(index) == index # {}

\* _extract_documents_from_vector_store(max_documents=limit)
_extract_documents_from_vector_store(index, limit) ==
    Take(SortedSeq(index), Max(0, limit))

ExtractFallsBackToDense(file, index, limit) ==
    LET sparse_docs == _extract_documents_from_sparse_store(file, limit)
    IN IF sparse_docs # <<>> THEN sparse_docs
       ELSE _extract_documents_from_vector_store(index, limit)

\* _extract_documents_from_store(max_documents=limit)
_extract_documents_from_store(file, index, limit) ==
    LET sparse_docs == _extract_documents_from_sparse_store(file, limit)
    IN IF sparse_docs # <<>> THEN sparse_docs
       ELSE IF ~_dense_retrieval_enabled THEN <<>>
       ELSE _extract_documents_from_vector_store(index, limit)

InitializeAccumulates(file, index) ==
    bm25_documents \o _extract_documents_from_store(file, index, BM25Cap)

\* what _initialize_retriever_from_disk() binds _bm25_documents to
InitializeLoad(file, index) ==
    IF ~settings.bm25_enabled THEN <<>>
    ELSE _extract_documents_from_store(file, index, BM25Cap)

\* _initialize_retriever_from_disk() raises: the AttributeError of the reader
\* propagates and _bm25_documents is not rebound
InitializeRaises(file) ==
    settings.bm25_enabled /\ SparseStoreRead(TRUE, file, <<BM25Cap>>).raised

\* the list after _bm25_documents.extend(chunks)
ExtendCorpus(corpus, chunks) == corpus \o chunks

EvictKeepsOldest(corpus, max_docs) == Take(corpus, max_docs)

\* the list after `del _bm25_documents[: len(_bm25_documents) - max_docs]`
EvictCorpus(corpus, max_docs) ==
    IF Len(corpus) > max_docs THEN Drop(corpus, Len(corpus) - max_docs) ELSE corpus

BuildFusesWheneverDense(embeddings, corpus) ==
    LET dense_retriever == _dense_retrieval_enabled /\ embeddings
        use_bm25 == settings.bm25_enabled /\ corpus # <<>>
    IN IF dense_retriever THEN "ensemble"
       ELSE IF use_bm25 THEN "bm25"
       ELSE "RuntimeError"

\* _build_hybrid_retriever: which retriever is returned, or the RuntimeError
_build_hybrid_retriever(embeddings, corpus) ==
    LET dense_retriever == _dense_retrieval_enabled /\ embeddings
        use_bm25 == settings.bm25_enabled /\ corpus # <<>>
    IN IF use_bm25 /\ ~dense_retriever THEN "bm25"
       ELSE IF dense_retriever /\ ~use_bm25 THEN "dense"
       ELSE IF ~dense_retriever /\ ~use_bm25 THEN "RuntimeError"
       ELSE "ensemble"

(* ----------------------------- llm_chain.py --------------------------- *)
\* Text is a sequence of characters. " " is whitespace, "." is neither
\* whitespace nor a word character, every other character is a word character.
IsSpace(c) == c = " "

IsWordChar(c) == c \notin {" ", "."}

\* re.IGNORECASE: characters are compared after case folding
Lower(c) == IF c = "C" THEN "c" ELSE IF c = "T" THEN "t" ELSE c

\* "CitationTool"
Marker == <<"C", "i", "t", "a", "t", "i", "o", "n", "T", "o", "o", "l">>

\* \b just before s[p] (p = Len(s) + 1: at the end of s)
WordBoundary(s, p) ==
    LET before == p > 1 /\ IsWordChar(s[p - 1])
        after  == p <= Len(s) /\ IsWordChar(s[p])
    IN before # after

\* r"\bCitationTool\b", re.IGNORECASE matches s at p
MatchesAt(s, p) ==
    /\ p + Len(Marker) - 1 <= Len(s)
    /\ \A i \in 1..Len(Marker) : Lower(s[p + i - 1]) = Lower(Marker[i])
    /\ WordBoundary(s, p)
    /\ WordBoundary(s, p + Len(Marker))

\* str.strip()
Strip(s) ==
    LET keep == {i \in 1..Len(s) : ~IsSpace(s[i])}
    IN IF keep = {} THEN <<>>
       ELSE SubSeq(s, CHOOSE i \in keep : \A j \in keep : i <= j,
                      CHOOSE i \in keep : \A j \in keep : i >= j)

\* _contains_citation_tool_marker(answer)
_contains_citation_tool_marker(answer) ==
    \E p \in 1..Len(answer) : MatchesAt(answer, p)

\* _sanitize_answer_text(answer): cut at the first match, then strip
_sanitize_answer_text(answer) ==
    LET starts == {p \in 1..Len(answer) : MatchesAt(answer, p)}
    IN IF starts = {} THEN Strip(answer)
       ELSE Strip(SubSeq(answer, 1, (CHOOSE p \in starts : \A r \in starts : p <= r) - 1))

\* marker_guard_length = len("CitationTool") - 1
marker_guard_length == Len(Marker) - 1

\* safe_target_length for the buffer as it is after a token was added
SafeTargetLength(buffer) ==
    LET clean_text == _sanitize_answer_text(buffer)
    IN IF _contains_citation_tool_marker(buffer) THEN Len(clean_text)
       ELSE Max(0, Len(clean_text) - marker_guard_length)

\* A retrieved chunk: its rank id and the length of page_content.strip().
\* A citation: where it comes from ("doc": the fallback built from a chunk,
\* "tool": the side channel, "answer": generate_answer), which one, and the
\* length of its source_text.
Citation(kind, id, len) == [kind |-> kind, id |-> id, len |-> len]

RECURSIVE FallbackLoop(_)
\* the loop of _fallback_citations_from_docs over retrieved_docs[:max_items]
FallbackLoop(docs) ==
    IF docs = <<>> THEN <<>>
    ELSE IF Head(docs).len = 0 THEN FallbackLoop(Tail(docs))
    ELSE <<Citation("doc", Head(docs).id, Min(Head(docs).len, SnippetMax))>>
            \o FallbackLoop(Tail(docs))

\* _fallback_citations_from_docs(retrieved_docs)
_fallback_citations_from_docs(docs) == FallbackLoop(Take(docs, MaxFallbackItems))

\* One tool_call_chunk: its name, its index (-1: no integer index) and its args
\* piece. The JSON text of a CitationTool payload is cut into the pieces "open"
\* ({"citations": [), "c1", "c2" (one citation each) and "close" (]}).
ToolChunk(name, index, args) == [name |-> name, index |-> index, args |-> args]

\* _accumulate_tool_call_args for one tool_call_chunk
_accumulate_tool_call_args(tool_chunk, buffers) ==
    IF tool_chunk.name \notin {"None", "", "CitationTool"} THEN buffers
    ELSE IF tool_chunk.args = "" THEN buffers
    ELSE LET key == IF tool_chunk.index >= 0 THEN tool_chunk.index ELSE 0
             old == IF key \in DOMAIN buffers THEN buffers[key] ELSE <<>>
         IN [k \in DOMAIN buffers \cup {key} |->
                IF k = key THEN Append(old, tool_chunk.args) ELSE buffers[k]]

CitationPieces == {"c1", "c2"}

\* Further pieces: "lopen" ([) and "lclose" (]) make a bare list; "bad" is a
\* JSON object that is not a Citation; " " is whitespace; "deep" is a text on
\* which json.loads raises something else than JSONDecodeError (RecursionError
\* for brackets nested deeper than the recursion limit, ValueError for an
\* integer of more digits than int() accepts).
\* raw_args without its whitespace (strip() at the ends, insignificant inside)
Stripped(raw_args) == SelectSeq(raw_args, LAMBDA piece : piece # " ")

\* json.loads and CitationTool.model_validate succeed on the buffer, on the
\* payload itself or, for a list, on {"citations": payload}
BufferParses(raw_args) ==
    /\ Len(Stripped(raw_args)) >= 2
    /\ \/ /\ Stripped(raw_args)[1] = "open"
          /\ Stripped(raw_args)[Len(Stripped(raw_args))] = "close"
       \/ /\ Stripped(raw_args)[1] = "lopen"
          /\ Stripped(raw_args)[Len(Stripped(raw_args))] = "lclose"
    /\ \A i \in 2..(Len(Stripped(raw_args)) - 1) : Stripped(raw_args)[i] \in CitationPieces

\* json.loads(raw_args) raises an exception that is not a JSONDecodeError: the
\* scanner reaches the "deep" piece where a value can start
BufferRaises(raw_args) ==
    \E i \in 1..Len(Stripped(raw_args)) :
        /\ Stripped(raw_args)[i] = "deep"
        /\ \/ i = 1
           \/ /\ Stripped(raw_args)[1] \in {"open", "lopen"}
              /\ \A j \in 2..(i - 1) : Stripped(raw_args)[j] \in CitationPieces \cup {"bad"}

\* tool_payload.citations of a buffer that parses
BufferCitations(raw_args) ==
    [i \in 1..(Len(Stripped(raw_args)) - 2) |->
        Citation("tool", IF Stripped(raw_args)[i + 1] = "c1" THEN 1 ELSE 2, 1)]

RECURSIVE ParseKeys(_, _)
ParseKeys(buffers, keys) ==
    IF keys = {} THEN <<>>
    ELSE LET key == CHOOSE k \in keys : \A j \in keys : k <= j
         IN (IF BufferParses(buffers[key]) THEN BufferCitations(buffers[key])
             ELSE <<>>) \o ParseKeys(buffers, keys \ {key})

\* _parse_citations_from_buffers(buffers)
_parse_citations_from_buffers(buffers) == ParseKeys(buffers, DOMAIN buffers)

\* _parse_citations_from_buffers(buffers) raises instead of returning
ParseRaises(buffers) == \E key \in DOMAIN buffers : BufferRaises(buffers[key])

\* the answer of the final event when generate_answer raised
ProviderFailureAnswer == <<"x", ".">>

FinalResponseWithoutFallback(buffer, buffers, docs, fallback_response) ==
    LET parsed == _parse_citations_from_buffers(buffers)
        streamed == _sanitize_answer_text(buffer)
    IN [answer |-> IF streamed # <<>> THEN streamed
                   ELSE IF fallback_response.raised THEN ProviderFailureAnswer
                   ELSE _sanitize_answer_text(fallback_response.answer),
        citations |-> IF streamed = <<>> /\ ~fallback_response.raised /\ parsed = <<>>
                      THEN fallback_response.citations ELSE parsed]

\* the ChatResponse of the normal end of the stream; fallback_response is what
\* generate_answer did: [raised, answer, citations]
FinalResponse(buffer, buffers, docs, fallback_response) ==
    LET parsed == _parse_citations_from_buffers(buffers)
        streamed == _sanitize_answer_text(buffer)
        final_answer ==
            IF streamed # <<>> THEN streamed
            ELSE IF fallback_response.raised THEN ProviderFailureAnswer
            ELSE _sanitize_answer_text(fallback_response.answer)
        citations ==
            IF streamed = <<>> /\ ~fallback_response.raised /\ parsed = <<>>
            THEN fallback_response.citations ELSE parsed
    IN [answer |-> final_answer,
        citations |-> IF citations # <<>> THEN citations
                      ELSE _fallback_citations_from_docs(docs)]

(* ------------------------------- Init --------------------------------- *)
NoEvents == [last |-> "none", via |-> "none", tokens |-> <<>>, last_token |-> <<>>, finals |-> 0,
             final |-> [answer |-> <<>>, citations |-> <<>>], fallback_calls |-> 0,
             fallback_response |-> [raised |-> FALSE, answer |-> <<>>,
                                    citations |-> <<>>]]

NoHttp == [pc |-> "idle", cause |-> "none", first_event |-> "none", last |-> "none",
           finals |-> 0, errors |-> 0, dones |-> 0]

NoStream ==
    /\ model_text = <<>>
    /\ model_tools = <<>>
    /\ retrieved_docs = <<>>
    /\ streamed_text_buffer = <<>>
    /\ emitted_length = 0
    /\ tool_call_argument_buffers = <<>>
    /\ stream_pc = "idle"
    /\ events = NoEvents
    /\ http = NoHttp

IdleUpload == [pc |-> "idle", chunks |-> <<>>, written |-> 0, log |-> <<>>,
               outcome |-> "none"]

IdleQuery == [pc |-> "idle", embeddings |-> FALSE, loaded |-> <<>>,
              outcome |-> "none", kind |-> "none", seen |-> <<>>,
              corpus |-> <<>>, dense_docs |-> {}]

SettingsSet == [dense_enabled : BOOLEAN, bm25_enabled : BOOLEAN,
                bm25_max_docs : 0..MaxCap, warm : BOOLEAN]

\* lifespan: the warm-up task exists when BM25 and warm-up are both configured
WarmAtStart(s) ==
    [pc |-> IF s.bm25_enabled /\ s.warm THEN "pending" ELSE "off", loaded |-> <<>>]

InitRetriever ==
    /\ settings \in SettingsSet
    /\ store = <<>>
    /\ dense = {}
    /\ bm25_documents = <<>>
    /\ store_has_docs = "None"
    /\ ingested = 0
    /\ bm25_ingested = <<>>
    /\ restarts = 0
    /\ up = IdleUpload
    /\ q = IdleQuery
    /\ warm = WarmAtStart(settings)

\* a worker thread that is not inside _append_documents_to_sparse_store
IdleAppender == [pc |-> "idle", chunks |-> <<>>, written |-> 0, pending |-> <<>>]

NoAppenders ==
    /\ appenders = [w \in 1..MaxWriters |-> IdleAppender]
    /\ raw_file = <<>>

\* no _extract_documents_from_sparse_store call and no rebuild observed yet
NoReader == [called |-> FALSE, exists |-> TRUE, max_documents |-> <<>>,
             raised |-> FALSE, documents |-> <<>>]

NoStoreReads ==
    /\ reader = NoReader
    /\ rebuilds = <<>>

\* a chat_stream request slot with no request in it
IdleRequest == [pc |-> "idle", session_id |-> 0]

\* no request has run the end of event_generator yet
NoFinished == [count |-> 0, started |-> 0, session_id |-> 0, history_before |-> <<>>,
               ids_before |-> <<>>, evicted |-> <<>>]

NoSessions ==
    /\ session_store = <<>>
    /\ requests = [r \in 1..MaxInFlight |-> IdleRequest]
    /\ finished = NoFinished

\* no exception, no response
NoException == [cls |-> "none", detail |-> <<>>]

NoOutcome == [kind |-> "none", status |-> 0, detail |-> <<>>, exc |-> NoException,
              answer |-> <<>>, citations |-> <<>>]

\* the chat endpoint with no request in it
IdleChat == [pc |-> "idle", result |-> [kind |-> "none"], raised |-> NoException,
             at |-> "none", mapped |-> 0, outcome |-> NoOutcome]

NoChat == chat = IdleChat

\* a float: a number in thousandths, or nan, inf, -inf
Float(kind, v) == [kind |-> kind, v |-> v]

Num(v) == Float("num", v)

\* no retrieval configured yet
IdleRuntime == [pc |-> "idle", dense_k |-> 0, bm25_k |-> 0, dense_weight |-> Num(0),
                header |-> Num(0), dense_list |-> <<>>, sparse_list |-> <<>>,
                weights |-> <<>>, fused |-> <<>>,
                X_Chunk_Size |-> DEFAULT_CHUNK_SIZE,
                X_Chunk_Overlap |-> DEFAULT_CHUNK_OVERLAP,
                chunk_size |-> 0, chunk_overlap |-> 0]

\* no tool_call_chunk received
IdleSide == [pc |-> "idle", script |-> <<>>, pos |-> 0, buffers |-> <<>>,
             citations |-> <<>>, failed |-> FALSE]

\* chat_stream before its request arrives
IdleReform == [pc |-> "idle", chat_history |-> FALSE, raw_query |-> <<>>,
               calls |-> 0, content |-> [kind |-> "none"], retrieval_query |-> <<>>,
               raised |-> NoException, origin |-> "none", handler |-> "none",
               outcome |-> NoOutcome]

\* no chat_stream request has started
IdleTurn == [pc |-> "idle", session_id |-> 0, query |-> "", retrieval_query |-> "",
             chat_history |-> <<>>, script |-> <<>>, pos |-> 0, final_answer |-> "",
             last |-> "none", before |-> <<>>, served |-> 0]

\* no chunk has been formatted
IdleFmt == [pc |-> "idle", metadata |-> <<>>, header |-> <<>>, citation |-> <<>>]

NoTurn == turn = IdleTurn /\ fmt = IdleFmt

NoFurther == runtime = IdleRuntime /\ side = IdleSide /\ reform = IdleReform /\ NoTurn

NoExtras == NoAppenders /\ NoStoreReads /\ NoSessions /\ NoChat /\ NoFurther

\* the retriever of a process that has ingested nothing, default settings
IdleRetriever ==
    /\ settings = [dense_enabled |-> FALSE, bm25_enabled |-> TRUE,
                   bm25_max_docs |-> 0, warm |-> FALSE]
    /\ store = <<>>
    /\ dense = {}
    /\ bm25_documents = <<>>
    /\ store_has_docs = "None"
    /\ ingested = 0
    /\ bm25_ingested = <<>>
    /\ restarts = 0
    /\ up = IdleUpload
    /\ q = IdleQuery
    /\ warm = WarmAtStart(settings)

Init == InitRetriever /\ NoStream /\ NoExtras

(* ------------------- upload_document (main.py) ------------------------ *)
\* process_pdf returned n chunks; `if chunks:` skips the store for n = 0
UploadStart ==
    /\ up.pc = "idle"
    /\ \E n \in 0..MaxBatch :
        /\ ingested + n <= MaxChunks
        /\ ingested' = ingested + n
        /\ up' = [IdleUpload EXCEPT
                    !.chunks = [i \in 1..n |-> ingested + i],
                    !.pc = IF n = 0 THEN "done" ELSE "append",
                    !.outcome = IF n = 0 THEN "success" ELSE "none"]
    /\ UNCHANGED <<settings, store, dense, bm25_documents, store_has_docs,
                   bm25_ingested, restarts, q, warm, svars, xvars, yvars>>

\* _add_documents, worker thread: _append_documents_to_sparse_store writes the
\* next record; after the last one the file is closed and the upsert follows
\* when dense retrieval is enabled and embeddings were given
AppendRecord ==
    /\ up.pc = "append"
    /\ up.written < Len(up.chunks)
    /\ store' = WriteRecord(store, up.chunks[up.written + 1])
    /\ up' = IF up.written + 1 < Len(up.chunks)
             THEN [up EXCEPT !.written = @ + 1]
             ELSE [up EXCEPT !.written = @ + 1,
                             !.log = Append(@, "append"),
                             !.pc = IF _dense_retrieval_enabled /\ get_embeddings_model
                                    THEN "upsert" ELSE "mark"]
    /\ UNCHANGED <<settings, dense, bm25_documents, store_has_docs, ingested,
                   bm25_ingested, restarts, q, warm, svars, xvars, yvars>>

\* the append raises OSError (mkdir, open, write or flush): the exception leaves
\* _add_documents and upload_document; the record being written may be torn
AppendFail ==
    /\ up.pc = "append"
    /\ up.written < Len(up.chunks)
    /\ \E torn \in BOOLEAN :
         store' = IF torn THEN WriteTorn(store, up.chunks[up.written + 1]) ELSE store
    /\ up' = [up EXCEPT !.pc = "done", !.outcome = "error"]
    /\ UNCHANGED <<settings, dense, bm25_documents, store_has_docs, ingested,
                   bm25_ingested, restarts, q, warm, svars, xvars, yvars>>

UpsertSwallowsFailure ==
    /\ up.pc = "upsert"
    /\ \E k \in 0..Len(up.chunks) :
        /\ dense' = dense \cup Range(Take(up.chunks, k))
        /\ up' = [up EXCEPT !.pc = "mark", !.log = Append(@, "upsert")]
    /\ UNCHANGED <<settings, store, bm25_documents, store_has_docs, ingested,
                   bm25_ingested, restarts, q, warm, svars, xvars, yvars>>

\* vector_store.add_documents(documents=chunks, ids=ids): the first k chunks are
\* upserted; k < n is a failure of the embedding provider or of Chroma
Upsert ==
    /\ up.pc = "upsert"
    /\ \E k \in 0..Len(up.chunks) :
        /\ dense' = dense \cup Range(Take(up.chunks, k))
        /\ up' = IF k = Len(up.chunks)
                 THEN [up EXCEPT !.pc = "mark", !.log = Append(@, "upsert")]
                 ELSE [up EXCEPT !.pc = "done", !.outcome = "error"]
    /\ UNCHANGED <<settings, store, bm25_documents, store_has_docs, ingested,
                   bm25_ingested, restarts, q, warm, svars, xvars, yvars>>

\* _add_documents: _store_has_docs = True, then the thread returns
MarkStoreHasDocs ==
    /\ up.pc = "mark"
    /\ store_has_docs' = "True"
    /\ up' = [up EXCEPT !.pc = "extend"]
    /\ UNCHANGED <<settings, store, dense, bm25_documents, ingested,
                   bm25_ingested, restarts, q, warm, svars, xvars, yvars>>

BM25ExtendWhenDisabled ==
    /\ up.pc = "extend"
    /\ bm25_documents' = ExtendCorpus(bm25_documents, up.chunks)
    /\ bm25_ingested' = bm25_ingested \o up.chunks
    /\ up' = [up EXCEPT !.pc = "evict", !.log = Append(@, "extend")]
    /\ UNCHANGED <<settings, store, dense, store_has_docs, ingested, restarts,
                   q, warm, svars, xvars, yvars>>

\* maybe_add_documents_to_bm25, event loop: _bm25_documents.extend(chunks)
BM25Extend ==
    /\ up.pc = "extend"
    /\ IF ~settings.bm25_enabled
       THEN /\ up' = [up EXCEPT !.pc = "done", !.outcome = "success"]
            /\ UNCHANGED <<bm25_documents, bm25_ingested>>
       ELSE /\ bm25_documents' = ExtendCorpus(bm25_documents, up.chunks)
            /\ bm25_ingested' = bm25_ingested \o up.chunks
            /\ up' = [up EXCEPT !.pc = "evict", !.log = Append(@, "extend")]
    /\ UNCHANGED <<settings, store, dense, store_has_docs, ingested, restarts,
                   q, warm, svars, xvars, yvars>>

\* maybe_add_documents_to_bm25: the cap check and the del of the oldest chunks,
\* then upload_document returns its success body
BM25Evict ==
    /\ up.pc = "evict"
    /\ bm25_documents' = EvictCorpus(bm25_documents, BM25Cap)
    /\ up' = [up EXCEPT !.pc = "done", !.outcome = "success"]
    /\ UNCHANGED <<settings, store, dense, store_has_docs, ingested,
                   bm25_ingested, restarts, q, warm, svars, xvars, yvars>>

\* the response (or the error) has been sent
UploadReturn ==
    /\ up.pc = "done"
    /\ up' = IdleUpload
    /\ UNCHANGED <<settings, store, dense, bm25_documents, store_has_docs,
                   ingested, bm25_ingested, restarts, q, warm, svars, xvars, yvars>>

(* ------------------ _retrieve_documents (worker thread) --------------- *)
\* retrieve_documents(query, embeddings, ...) is handed to a worker thread
QueryStart ==
    /\ q.pc = "idle"
    /\ \E embeddings \in BOOLEAN :
         q' = [IdleQuery EXCEPT !.pc = "start", !.embeddings = embeddings]
    /\ UNCHANGED <<settings, store, dense, bm25_documents, store_has_docs,
                   ingested, bm25_ingested, restarts, up, warm, svars, xvars, yvars>>

QueryReloadsWheneverEnabled ==
    /\ q.pc = "start"
    /\ q' = IF settings.bm25_enabled
            THEN [q EXCEPT !.pc = "rebind", !.loaded = InitializeLoad(store, dense)]
            ELSE [q EXCEPT !.pc = "check"]
    /\ UNCHANGED <<settings, store, dense, bm25_documents, store_has_docs,
                   ingested, bm25_ingested, restarts, up, warm, svars, xvars, yvars>>

\* `if _settings.documind_bm25_enabled and not _bm25_documents:` and, when it
\* holds, the read of the store by _initialize_retriever_from_disk()
QueryLazyLoad ==
    /\ q.pc = "start"
    /\ q' = IF settings.bm25_enabled /\ bm25_documents = <<>>
            THEN [q EXCEPT !.pc = "rebind", !.loaded = InitializeLoad(store, dense)]
            ELSE [q EXCEPT !.pc = "check"]
    /\ UNCHANGED <<settings, store, dense, bm25_documents, store_has_docs,
                   ingested, bm25_ingested, restarts, up, warm, svars, xvars, yvars>>

\* _initialize_retriever_from_disk: `_bm25_documents = ...` rebinds the global
QueryRebind ==
    /\ q.pc = "rebind"
    /\ bm25_documents' = q.loaded
    /\ q' = [q EXCEPT !.pc = "check", !.loaded = <<>>]
    /\ UNCHANGED <<settings, store, dense, store_has_docs, ingested,
                   bm25_ingested, restarts, up, warm, svars, xvars, yvars>>

\* the two NotReady checks of _retrieve_documents; the first one runs
\* _detect_store_has_documents(), which sets _store_has_docs
QueryCheckReady ==
    /\ q.pc = "check"
    /\ LET detected == IF _sparse_store_has_documents(store) THEN TRUE
                       ELSE IF ~_dense_retrieval_enabled THEN FALSE
                       ELSE _detect_vector_store_has_documents(dense)
       IN IF bm25_documents = <<>> /\ store_has_docs = "None"
          THEN /\ store_has_docs' = IF detected THEN "True" ELSE "False"
               /\ q' = IF detected THEN [q EXCEPT !.pc = "build"]
                        ELSE [q EXCEPT !.pc = "done", !.outcome = "RuntimeError"]
          ELSE /\ UNCHANGED store_has_docs
               /\ q' = IF bm25_documents = <<>> /\ store_has_docs = "False"
                           /\ ~_dense_retrieval_enabled
                        THEN [q EXCEPT !.pc = "done", !.outcome = "RuntimeError"]
                        ELSE [q EXCEPT !.pc = "build"]
    /\ UNCHANGED <<settings, store, dense, bm25_documents, ingested,
                   bm25_ingested, restarts, up, warm, svars, xvars, yvars>>

\* _build_hybrid_retriever(...) and retriever.invoke(query): the BM25 retriever
\* is built from the corpus as it is now, the dense one reads the collection
QueryBuild ==
    /\ q.pc = "build"
    /\ LET kind == _build_hybrid_retriever(q.embeddings, bm25_documents)
       IN q' = IF kind = "RuntimeError"
               THEN [q EXCEPT !.pc = "done", !.outcome = "RuntimeError",
                        !.kind = kind, !.seen = bm25_documents]
               ELSE [q EXCEPT !.pc = "done", !.outcome = "ok", !.kind = kind,
                        !.seen = bm25_documents,
                        !.corpus = IF kind \in {"bm25", "ensemble"}
                                   THEN bm25_documents ELSE <<>>,
                        !.dense_docs = IF kind \in {"dense", "ensemble"}
                                       THEN dense ELSE {}]
    /\ UNCHANGED <<settings, store, dense, bm25_documents, store_has_docs,
                   ingested, bm25_ingested, restarts, up, warm, svars, xvars, yvars>>

\* the documents (or the HTTP 400 built from the RuntimeError) are returned
QueryReturn ==
    /\ q.pc = "done"
    /\ q' = IdleQuery
    /\ UNCHANGED <<settings, store, dense, bm25_documents, store_has_docs,
                   ingested, bm25_ingested, restarts, up, warm, svars, xvars, yvars>>

(* ------------------------ lifespan and restart ------------------------ *)
\* _warm_retriever_cache: _initialize_retriever_from_disk() reads the store
WarmLoad ==
    /\ warm.pc = "pending"
    /\ warm' = [pc |-> "rebind", loaded |-> InitializeLoad(store, dense)]
    /\ UNCHANGED <<settings, store, dense, bm25_documents, store_has_docs,
                   ingested, bm25_ingested, restarts, up, q, svars, xvars, yvars>>

\* ... and rebinds _bm25_documents
WarmRebind ==
    /\ warm.pc = "rebind"
    /\ bm25_documents' = warm.loaded
    /\ warm' = [pc |-> "finished", loaded |-> <<>>]
    /\ UNCHANGED <<settings, store, dense, store_has_docs, ingested,
                   bm25_ingested, restarts, up, q, svars, xvars, yvars>>

\* the process stops and starts again: the module globals are re-created
\* (lines 16-21), the store file and the Chroma collection stay on disk
Restart ==
    /\ restarts < MaxRestarts
    /\ up.pc = "idle"
    /\ q.pc = "idle"
    /\ warm.pc \in {"off", "finished"}
    /\ restarts' = restarts + 1
    /\ bm25_documents' = <<>>
    /\ bm25_ingested' = <<>>
    /\ store_has_docs' = "None"
    /\ warm' = WarmAtStart(settings)
    /\ UNCHANGED <<settings, store, dense, ingested, up, q, svars, xvars, yvars>>

(* --------- stream_answer_events (llm_chain.py), chat_stream (main.py) -- *)
\* the inputs of one streaming request
LowerMarker == [i \in 1..Len(Marker) |-> Lower(Marker[i])]

Tails == {<<>>} \cup {<<c>> \o [i \in 1..k |-> "x"] : c \in {" ", "x", "."}, k \in 0..MaxTail}

\* answer texts that hold the marker, alone or inside a longer word
MarkerTexts == {pre \o mid \o post : pre \in {<<>>, <<"x">>, <<"x", " ">>},
                                     mid \in {Marker, LowerMarker},
                                     post \in Tails}

ShortTexts == {<<>>, <<" ">>, <<"x">>}

\* lengths of page_content.strip(): blank, short, longer than the snippet
ContentLens == {0, 5, SnippetMax + 1}

DocLists == UNION {{[i \in 1..n |-> [id |-> i, len |-> f[i]]] : f \in [1..n -> ContentLens]}
                   : n \in 0..MaxDocs}

ToolChunks == {ToolChunk(name, index, args) :
                 name \in {"CitationTool", "other"}, index \in {0 - 1, 0, 1},
                 args \in {"open", "c1", "close"}}

ToolScripts == UNION {[1..n -> ToolChunks] : n \in 0..MaxFrags}

ValidScript == <<ToolChunk("CitationTool", 0, "open"), ToolChunk("None", 0, "c1"),
                 ToolChunk("None", 0, "close")>>

FallbackScripts == {<<>>, SubSeq(ValidScript, 1, 2), ValidScript}

OneDoc == <<[id |-> 1, len |-> 5]>>

\* what generate_answer can do when it is called as the fallback
GenerateAnswerOutcomes ==
    {[raised |-> TRUE, answer |-> <<>>, citations |-> <<>>]} \cup
    [raised : {FALSE}, answer : {<<>>, <<"x">>},
     citations : {<<>>, <<Citation("answer", 1, 1)>>}]

\* chat_stream is about to call retrieve_documents; the inputs of the request
\* (what the model will send, what retrieval returns when it succeeds) are drawn
InitStream ==
    /\ settings = [dense_enabled |-> FALSE, bm25_enabled |-> TRUE,
                   bm25_max_docs |-> 0, warm |-> FALSE]
    /\ store = <<>>
    /\ dense = {}
    /\ bm25_documents = <<>>
    /\ store_has_docs = "None"
    /\ ingested = 0
    /\ bm25_ingested = <<>>
    /\ restarts = 0
    /\ up = IdleUpload
    /\ q = IdleQuery
    /\ warm = WarmAtStart(settings)
    /\ \/ /\ model_text \in MarkerTexts
          /\ model_tools = <<>>
          /\ retrieved_docs = OneDoc
       \/ /\ model_text \in ShortTexts
          /\ model_tools \in FallbackScripts
          /\ retrieved_docs \in DocLists
       \/ /\ model_text = <<"x">>
          /\ model_tools \in ToolScripts
          /\ retrieved_docs = OneDoc
    /\ streamed_text_buffer = <<>>
    /\ emitted_length = 0
    /\ tool_call_argument_buffers = <<>>
    /\ stream_pc = "idle"
    /\ events = NoEvents
    /\ http = [NoHttp EXCEPT !.pc = "retrieving"]
    /\ NoExtras

\* chat_stream awaits retrieve_documents: it returns the documents and the
\* stream is created, or it raises (NotReady is the RuntimeError of
\* _retrieve_documents, turned into HTTP 400; another exception goes through
\* map_provider_error) and chat_stream ends before stream_answer_events is called
ChatStreamRetrieve ==
    /\ http.pc = "retrieving"
    /\ \E outcome \in {"documents", "NotReady", "other"} :
         IF outcome = "documents"
         THEN /\ http' = [http EXCEPT !.pc = "await_first"]
              /\ stream_pc' = "streaming"
         ELSE /\ http' = [http EXCEPT !.pc = "http_error", !.cause = outcome]
              /\ UNCHANGED stream_pc
    /\ UNCHANGED <<model_text, model_tools, retrieved_docs, streamed_text_buffer,
                   emitted_length, tool_call_argument_buffers, events,
                   rvars, xvars, yvars>>

\* the consumer is waiting for the next event: chat_stream in `await
\* anext(stream_events)` or event_generator in its `async for`
Pulling == http.pc \in {"await_first", "forwarding"}

\* the consumer receives an event of the stream
Deliver(kind) ==
    IF http.pc = "await_first"
    THEN [http EXCEPT !.pc = "have_first", !.first_event = kind]
    ELSE [http EXCEPT !.last = kind,
                      !.finals = @ + (IF kind = "final" THEN 1 ELSE 0)]

\* the stream yields {"type": "final", "payload": response}; via records the
\* yield statement: the one of the except branch or the one after the loop
YieldFinal(response, calls, via) ==
    [events EXCEPT !.last = "final", !.via = via, !.finals = @ + 1,
                   !.final = response, !.fallback_calls = @ + calls]

\* one model chunk that carries k characters of answer text
StreamTextChunk ==
    /\ stream_pc = "streaming"
    /\ Pulling
    /\ \E k \in 1..Len(model_text) :
        LET buffer == streamed_text_buffer \o Take(model_text, k)
            clean_text == _sanitize_answer_text(buffer)
            safe_target_length == SafeTargetLength(buffer)
            yields == safe_target_length > emitted_length
            safe_token == SubSeq(clean_text, emitted_length + 1, safe_target_length)
        IN /\ streamed_text_buffer' = buffer
           /\ model_text' = Drop(model_text, k)
           /\ emitted_length' = IF yields THEN safe_target_length ELSE emitted_length
           /\ events' = IF yields
                        THEN [events EXCEPT !.last = "token",
                                            !.tokens = @ \o safe_token,
                                            !.last_token = safe_token]
                        ELSE events
           /\ http' = IF yields THEN Deliver("token") ELSE http
    /\ UNCHANGED <<model_tools, retrieved_docs, tool_call_argument_buffers,
                   stream_pc, rvars, xvars, yvars>>

\* one model chunk that carries a tool_call_chunk and no text
StreamToolChunk ==
    /\ stream_pc = "streaming"
    /\ Pulling
    /\ model_tools # <<>>
    /\ tool_call_argument_buffers' =
           _accumulate_tool_call_args(Head(model_tools), tool_call_argument_buffers)
    /\ model_tools' = Tail(model_tools)
    /\ UNCHANGED <<model_text, retrieved_docs, streamed_text_buffer,
                   emitted_length, stream_pc, events, http, rvars, xvars, yvars>>

StreamRaiseNoReturn ==
    /\ stream_pc = "streaming"
    /\ Pulling
    /\ LET fallback_answer == _sanitize_answer_text(streamed_text_buffer)
       IN IF fallback_answer # <<>>
          THEN /\ events' = YieldFinal([answer |-> fallback_answer,
                                citations |-> _fallback_citations_from_docs(retrieved_docs)],
                                0, "except")
               /\ model_text' = <<>>
               /\ model_tools' = <<>>
               /\ stream_pc' = "streaming"
               /\ http' = Deliver("final")
          ELSE /\ stream_pc' = "raised"
               /\ http' = IF http.pc = "await_first"
                          THEN [http EXCEPT !.pc = "http_error", !.cause = "stream"]
                          ELSE [http EXCEPT !.pc = "closed", !.last = "error",
                                            !.errors = @ + 1]
               /\ UNCHANGED <<events, model_text, model_tools>>
    /\ UNCHANGED <<retrieved_docs, streamed_text_buffer,
                   emitted_length, tool_call_argument_buffers, rvars, xvars, yvars>>

StreamRaiseAlways ==
    /\ stream_pc = "streaming"
    /\ Pulling
    /\ stream_pc' = "raised"
    /\ http' = IF http.pc = "await_first"
               THEN [http EXCEPT !.pc = "http_error", !.cause = "stream"]
               ELSE [http EXCEPT !.pc = "closed", !.last = "error",
                                 !.errors = @ + 1]
    /\ UNCHANGED <<events, model_text, model_tools, retrieved_docs,
                   streamed_text_buffer, emitted_length,
                   tool_call_argument_buffers, rvars, xvars, yvars>>

StreamRaiseUsesSideChannel ==
    /\ stream_pc = "streaming"
    /\ Pulling
    /\ LET fallback_answer == _sanitize_answer_text(streamed_text_buffer)
           parsed == _parse_citations_from_buffers(tool_call_argument_buffers)
       IN IF fallback_answer # <<>>
          THEN /\ events' = YieldFinal([answer |-> fallback_answer,
                                citations |-> IF parsed # <<>> THEN parsed
                                              ELSE _fallback_citations_from_docs(retrieved_docs)],
                                0, "except")
               /\ stream_pc' = "done"
               /\ http' = Deliver("final")
               /\ UNCHANGED <<model_text, model_tools>>
          ELSE /\ stream_pc' = "raised"
               /\ http' = IF http.pc = "await_first"
                          THEN [http EXCEPT !.pc = "http_error", !.cause = "stream"]
                          ELSE [http EXCEPT !.pc = "closed", !.last = "error",
                                            !.errors = @ + 1]
               /\ UNCHANGED <<events, model_text, model_tools>>
    /\ UNCHANGED <<retrieved_docs, streamed_text_buffer,
                   emitted_length, tool_call_argument_buffers, rvars, xvars, yvars>>

\* chain.astream raises: the except branch yields a final event built from the
\* text received so far, or re-raises when that text is empty; the exception
\* reaches chat_stream (no event yet: an HTTP error response) or
\* event_generator (an error event closes the stream)
StreamRaise ==
    /\ stream_pc = "streaming"
    /\ Pulling
    /\ LET fallback_answer == _sanitize_answer_text(streamed_text_buffer)
       IN IF fallback_answer # <<>>
          THEN /\ events' = YieldFinal([answer |-> fallback_answer,
                                citations |-> _fallback_citations_from_docs(retrieved_docs)],
                                0, "except")
               /\ stream_pc' = "done"
               /\ http' = Deliver("final")
               /\ UNCHANGED <<model_text, model_tools>>
          ELSE /\ stream_pc' = "raised"
               /\ http' = IF http.pc = "await_first"
                          THEN [http EXCEPT !.pc = "http_error", !.cause = "stream"]
                          ELSE [http EXCEPT !.pc = "closed", !.last = "error",
                                            !.errors = @ + 1]
               /\ UNCHANGED <<events, model_text, model_tools>>
    /\ UNCHANGED <<retrieved_docs, streamed_text_buffer,
                   emitted_length, tool_call_argument_buffers, rvars, xvars, yvars>>

StreamEndFallsBackForCitations ==
    /\ stream_pc = "streaming"
    /\ Pulling
    /\ model_text = <<>>
    /\ model_tools = <<>>
    /\ \E fallback_response \in GenerateAnswerOutcomes :
        LET response == FinalResponse(streamed_text_buffer, tool_call_argument_buffers,
                                      retrieved_docs, fallback_response)
        IN events' = IF \/ _sanitize_answer_text(streamed_text_buffer) = <<>>
                        \/ _parse_citations_from_buffers(tool_call_argument_buffers) = <<>>
                     THEN [YieldFinal(response, 1, "end") EXCEPT
                             !.fallback_response = fallback_response]
                     ELSE YieldFinal(response, 0, "end")
    /\ stream_pc' = "done"
    /\ http' = Deliver("final")
    /\ UNCHANGED <<model_text, model_tools, retrieved_docs, streamed_text_buffer,
                   emitted_length, tool_call_argument_buffers, rvars, xvars, yvars>>

\* the model stream ends: the citations are parsed, generate_answer is called
\* when the sanitized answer is empty, and the final event is yielded
StreamEnd ==
    /\ stream_pc = "streaming"
    /\ Pulling
    /\ model_text = <<>>
    /\ model_tools = <<>>
    /\ \E fallback_response \in GenerateAnswerOutcomes :
        LET response == FinalResponse(streamed_text_buffer, tool_call_argument_buffers,
                                      retrieved_docs, fallback_response)
        IN events' = IF _sanitize_answer_text(streamed_text_buffer) = <<>>
                     THEN [YieldFinal(response, 1, "end") EXCEPT
                             !.fallback_response = fallback_response]
                     ELSE YieldFinal(response, 0, "end")
    /\ stream_pc' = "done"
    /\ http' = Deliver("final")
    /\ UNCHANGED <<model_text, model_tools, retrieved_docs, streamed_text_buffer,
                   emitted_length, tool_call_argument_buffers, rvars, xvars, yvars>>

\* chat_stream returns the StreamingResponse; event_generator sends first_event
EmitFirstEvent ==
    /\ http.pc = "have_first"
    /\ http' = [http EXCEPT !.pc = "forwarding", !.last = http.first_event,
                            !.finals = @ + (IF http.first_event = "final" THEN 1 ELSE 0)]
    /\ UNCHANGED <<model_text, model_tools, retrieved_docs, streamed_text_buffer,
                   emitted_length, tool_call_argument_buffers, stream_pc, events,
                   rvars, xvars, yvars>>

\* the generator is exhausted after its final event: event_generator leaves the
\* `async for`, records the turn and sends [DONE]
StreamExhausted ==
    /\ stream_pc = "done"
    /\ http.pc = "forwarding"
    /\ http' = [http EXCEPT !.pc = "closed", !.last = "DONE", !.dones = @ + 1]
    /\ UNCHANGED <<model_text, model_tools, retrieved_docs, streamed_text_buffer,
                   emitted_length, tool_call_argument_buffers, stream_pc, events,
                   rvars, xvars, yvars>>

NextStream ==
    \/ ChatStreamRetrieve
    \/ StreamTextChunk
    \/ StreamToolChunk
    \/ StreamRaise
    \/ StreamEnd
    \/ EmitFirstEvent
    \/ StreamExhausted

SpecStream == InitStream /\ [][NextStream]_vars

NextIngest ==
    \/ UploadStart
    \/ AppendRecord
    \/ AppendFail
    \/ Upsert
    \/ MarkStoreHasDocs
    \/ BM25Extend
    \/ BM25Evict
    \/ UploadReturn

SpecIngest == Init /\ [][NextIngest]_vars

Next ==
    \/ NextIngest
    \/ QueryStart
    \/ QueryLazyLoad
    \/ QueryRebind
    \/ QueryCheckReady
    \/ QueryBuild
    \/ QueryReturn
    \/ WarmLoad
    \/ WarmRebind
    \/ Restart

Spec == Init /\ [][Next]_vars

(* ------ concurrent _append_documents_to_sparse_store (retriever.py) ---- *)
\* Two uploads run add_documents_to_store at the same time: each runs
\* _append_documents_to_sparse_store in its own asyncio.to_thread worker, with
\* its own handle opened in mode "a". handle.write puts the text in the handle's
\* buffer; the buffer goes to the file in one OS write when it is full (after
\* some handle.write, depending on the sizes of the records) and when the
\* handle is closed. An OS write in append mode lands as one block at the end
\* of the file.

\* what one handle.write adds: the JSON text of chunk id, or the "\n" after it
Piece(w, id, part) == [w |-> w, id |-> id, part |-> part]

\* the chunk ids of a call of n chunks by worker w
AppendChunks(w, n) == [k \in 1..n |-> (w - 1) * MaxAppendBatch + k]

\* the i-th handle.write of worker w: json.dumps(...) then "\n", chunk by chunk
NextPiece(w) ==
    LET a == appenders[w]
        k == (a.written \div 2) + 1
    IN Piece(w, a.chunks[k], IF a.written % 2 = 0 THEN "json" ELSE "nl")

\* store_path.open("a"): the call starts
AppendOpen ==
    \E w \in 1..MaxWriters, n \in 1..MaxAppendBatch :
        /\ appenders[w].pc = "idle"
        /\ appenders' = [appenders EXCEPT ![w] =
               [pc |-> "open", chunks |-> AppendChunks(w, n), written |-> 0,
                pending |-> <<>>]]
        /\ UNCHANGED <<raw_file, reader, rebuilds, session_store, requests,
                       finished, chat, rvars, svars, yvars>>

\* one handle.write; when it fills the buffer the buffer is written to the file
AppendWrite ==
    \E w \in 1..MaxWriters, buffer_full \in BOOLEAN :
        LET a == appenders[w]
            buffered == Append(a.pending, NextPiece(w))
        IN /\ a.pc = "open"
           /\ a.written < 2 * Len(a.chunks)
           /\ appenders' = [appenders EXCEPT ![w] =
                  [a EXCEPT !.written = @ + 1,
                            !.pending = IF buffer_full THEN <<>> ELSE buffered]]
           /\ raw_file' = IF buffer_full THEN raw_file \o buffered ELSE raw_file
           /\ UNCHANGED <<reader, rebuilds, session_store, requests, finished,
                          chat, rvars, svars, yvars>>

\* the end of the `with` block: the rest of the buffer is written, the handle closed
AppendClose ==
    \E w \in 1..MaxWriters :
        LET a == appenders[w]
        IN /\ a.pc = "open"
           /\ a.written = 2 * Len(a.chunks)
           /\ appenders' = [appenders EXCEPT ![w] = [a EXCEPT !.pc = "closed",
                                                              !.pending = <<>>]]
           /\ raw_file' = raw_file \o a.pending
           /\ UNCHANGED <<reader, rebuilds, session_store, requests, finished,
                          chat, rvars, svars, yvars>>

\* the lines of a file given as pieces: a line ends at each "\n"
RECURSIVE SplitLines(_, _)
SplitLines(raw, current) ==
    IF raw = <<>> THEN (IF current = <<>> THEN <<>> ELSE <<current>>)
    ELSE IF Head(raw).part = "nl" THEN <<current>> \o SplitLines(Tail(raw), <<>>)
    ELSE SplitLines(Tail(raw), Append(current, Head(raw)))

(* ---------- reading the Chunk Store and rebuilding the corpus ---------- *)
\* the kinds of line a store file can hold; a torn line has no newline and can
\* only be the last one
LineKinds == {"record", "nometa", "blank", "garbage", "nonstring", "nonobject"}

StoreFiles ==
    UNION {{[i \in 1..n |-> Line(i, kinds[i])] :
              kinds \in {k \in [1..n -> LineKinds \cup {"torn"}] :
                           \A i \in 1..n : k[i] = "torn" => i = n}} :
           n \in 0..MaxLines}

\* the max_documents arguments: None (<<>>), a negative number, 0, 1, ...
MaxDocumentsArgs == {<<>>} \cup {<<n>> : n \in (0 - 1)..MaxLines}

\* a process that finds a store file and a Dense Index left by earlier runs
InitStore ==
    /\ settings \in {st \in SettingsSet : ~st.warm}
    /\ store \in StoreFiles
    /\ dense \in {{}, {MaxLines + 1, MaxLines + 2}}
    /\ bm25_documents = <<>>
    /\ store_has_docs = "None"
    /\ ingested = 0
    /\ bm25_ingested = <<>>
    /\ restarts = 0
    /\ up = IdleUpload
    /\ q = IdleQuery
    /\ warm = WarmAtStart(settings)
    /\ NoStream
    /\ NoExtras

\* one call of _extract_documents_from_sparse_store(max_documents); a file
\* without lines is either missing or empty
ExtractFromSparseStore ==
    \E max_documents \in MaxDocumentsArgs, exists \in BOOLEAN :
        /\ store # <<>> => exists
        /\ reader' = [called |-> TRUE, exists |-> exists,
                      max_documents |-> max_documents,
                      raised |-> SparseStoreRead(exists, store, max_documents).raised,
                      documents |-> SparseStoreRead(exists, store, max_documents).documents]
        /\ UNCHANGED <<appenders, raw_file, rebuilds, session_store, requests,
                       finished, chat, rvars, svars, yvars>>

\* one call of _initialize_retriever_from_disk()
InitializeFromDisk ==
    /\ Len(rebuilds) < MaxRebuilds
    /\ bm25_documents' = IF InitializeRaises(store) THEN bm25_documents
                         ELSE InitializeLoad(store, dense)
    /\ rebuilds' = Append(rebuilds, bm25_documents')
    /\ UNCHANGED <<settings, store, dense, store_has_docs, ingested,
                   bm25_ingested, restarts, up, q, warm, appenders, raw_file,
                   reader, session_store, requests, finished, chat, svars, yvars>>

NextStore ==
    \/ ExtractFromSparseStore
    \/ InitializeFromDisk

SpecStore == InitStore /\ [][NextStore]_vars

(* ------------- session_store (main.py, event_generator) ---------------- *)
\* session_store is a dict: the sessions in insertion order. A message is the
\* number it got when it was appended (older messages have smaller numbers).
SessionIds(sessions) == [i \in 1..Len(sessions) |-> sessions[i].id]

\* session_store.setdefault(session_id, []): an absent key is inserted last
SetDefault(sessions, session_id) ==
    IF \E i \in 1..Len(sessions) : sessions[i].id = session_id THEN sessions
    ELSE Append(sessions, [id |-> session_id, history |-> <<>>])

TrimKeepsOldest(history) == Take(history, MAX_CHAT_HISTORY_MESSAGES_PER_SESSION)

\* if len(history) > MAX: del history[:-MAX]
TrimHistory(history) ==
    IF Len(history) > MAX_CHAT_HISTORY_MESSAGES_PER_SESSION
    THEN Drop(history, Len(history) - MAX_CHAT_HISTORY_MESSAGES_PER_SESSION)
    ELSE history

EvictFromTheEnd(sessions, session_id) ==
    Take(sessions, MAX_IN_MEMORY_SESSIONS)

\* while len(session_store) > MAX: pop the first key unless it is session_id
RECURSIVE EvictSessions(_, _)
EvictSessions(sessions, session_id) ==
    IF Len(sessions) > MAX_IN_MEMORY_SESSIONS
    THEN IF sessions[1].id = session_id THEN sessions
         ELSE EvictSessions(Tail(sessions), session_id)
    ELSE sessions

\* the session ids the requests of the model use: the oldest session of the
\* store and two sessions the store does not hold
RequestSessions == {1, MAX_IN_MEMORY_SESSIONS + 1, MAX_IN_MEMORY_SESSIONS + 2}

\* a process that has served many sessions: the store is at or just under its
\* cap, every session has one turn, the oldest one has 1, 9 or 10 turns
InitSessions ==
    /\ IdleRetriever
    /\ NoStream
    /\ NoAppenders
    /\ NoStoreReads
    /\ NoChat
    /\ NoFurther
    /\ \E n \in {MAX_IN_MEMORY_SESSIONS - 1, MAX_IN_MEMORY_SESSIONS},
          h \in {2, MAX_CHAT_HISTORY_MESSAGES_PER_SESSION - 2,
                 MAX_CHAT_HISTORY_MESSAGES_PER_SESSION} :
         session_store = [i \in 1..n |->
             [id |-> i,
              history |-> [j \in 1..(IF i = 1 THEN h ELSE 2) |->
                             j - (IF i = 1 THEN h ELSE 2)]]]
    /\ requests = [r \in 1..MaxInFlight |-> IdleRequest]
    /\ finished = NoFinished

\* chat_stream is called: session_id = str(request.session_id)
RequestStart ==
    \E r \in 1..MaxInFlight, session_id \in RequestSessions :
        /\ requests[r].pc = "idle"
        /\ finished.started < MaxRequests
        /\ requests' = [requests EXCEPT ![r] =
                          [pc |-> "streaming", session_id |-> session_id]]
        /\ finished' = [finished EXCEPT !.started = @ + 1]
        /\ UNCHANGED <<session_store, appenders, raw_file, reader, rebuilds,
                       chat, rvars, svars, yvars>>

\* the history stored for session_id: session_store.get(session_id, [])
HistoryOf(sessions, session_id) ==
    LET at == {i \in 1..Len(sessions) : sessions[i].id = session_id}
    IN IF at = {} THEN <<>> ELSE sessions[CHOOSE i \in at : TRUE].history

\* history.append(HumanMessage); history.append(AIMessage); the trim of the
\* history: the list stored under session_id is changed in place
WriteTurn(sessions, session_id, human, ai) ==
    [i \in 1..Len(sessions) |->
        IF sessions[i].id = session_id
        THEN [id |-> session_id,
              history |-> TrimHistory(sessions[i].history \o <<human, ai>>)]
        ELSE sessions[i]]

\* the stream is exhausted: event_generator records the turn (lines 513-524,
\* no await in between) and sends [DONE]
RequestFinish ==
    \E r \in 1..MaxInFlight :
        /\ requests[r].pc = "streaming"
        /\ session_store' =
              EvictSessions(
                  WriteTurn(SetDefault(session_store, requests[r].session_id),
                            requests[r].session_id,
                            2 * finished.count + 1, 2 * finished.count + 2),
                  requests[r].session_id)
        /\ requests' = [requests EXCEPT ![r] = IdleRequest]
        /\ finished' = [finished EXCEPT
                !.count = @ + 1,
                !.session_id = requests[r].session_id,
                !.history_before = HistoryOf(session_store, requests[r].session_id),
                !.ids_before =
                    SessionIds(SetDefault(session_store, requests[r].session_id)),
                !.evicted =
                    Take(SessionIds(SetDefault(session_store, requests[r].session_id)),
                         Len(SetDefault(session_store, requests[r].session_id))
                            - Len(session_store'))]
        /\ UNCHANGED <<appenders, raw_file, reader, rebuilds, chat, rvars, svars, yvars>>

\* the request ends without reaching line 513: a failure before the stream
\* (HTTP error response) or the client going away
RequestAbort ==
    \E r \in 1..MaxInFlight :
        /\ requests[r].pc = "streaming"
        /\ requests' = [requests EXCEPT ![r] = IdleRequest]
        /\ UNCHANGED <<session_store, finished, appenders, raw_file, reader,
                       rebuilds, chat, rvars, svars, yvars>>

NextSessions ==
    \/ RequestStart
    \/ RequestFinish
    \/ RequestAbort

SpecSessions == InitSessions /\ [][NextSessions]_vars

(* -------- chat (main.py), generate_answer, map_provider_error ---------- *)
\* An exception is its class and str(exc), the latter as a list of words.
\* The classes main.py tests for, pydantic's ValidationError, RuntimeError and
\* any other class
ExceptionClasses == {"OpenAIAuthenticationError", "GroqRateLimitError",
                     "OpenAIRateLimitError", "OpenAIBadRequestError",
                     "ValidationError", "RuntimeError", "OtherError"}

\* messages of a provider error
Details == {<<"The", "model", "has", "been", "decommissioned">>,
            <<"The", "Model", "X", "Has", "Been", "Decommissioned">>,
            <<"code", "MODEL_DECOMMISSIONED">>,
            <<"invalid", "model", "name">>,
            <<"endpoint", "decommissioned">>,
            <<"invalid", "request">>,
            <<>>}

\* str.lower() of one word
LowerWord(w) ==
    CASE w = "The" -> "the"
      [] w = "Model" -> "model"
      [] w = "X" -> "x"
      [] w = "Has" -> "has"
      [] w = "Been" -> "been"
      [] w = "Decommissioned" -> "decommissioned"
      [] w = "MODEL_DECOMMISSIONED" -> "model_decommissioned"
      [] OTHER -> w

\* `part in word` for the two substrings main.py looks for
WordContains(word, part) ==
    CASE part = "model" -> word \in {"model", "model_decommissioned"}
      [] part = "decommission" -> word \in {"decommissioned", "model_decommissioned"}
      [] OTHER -> FALSE

\* `part in detail.lower()`
DetailContains(detail, part) ==
    \E i \in 1..Len(detail) : WordContains(LowerWord(detail[i]), part)

\* HTTPException(status_code, detail); the fixed details are named
HTTPException(status, detail) == [mapped |-> TRUE, status |-> status, detail |-> detail]

MapsBadRequestTo400Always(exc) ==
    IF exc.cls = "OpenAIAuthenticationError"
    THEN HTTPException(401, <<"INVALID_KEY_DETAIL">>)
    ELSE IF exc.cls \in {"GroqRateLimitError", "OpenAIRateLimitError"}
    THEN HTTPException(429, <<"GROQ_RATE_LIMIT_DETAIL">>)
    ELSE IF exc.cls = "OpenAIBadRequestError"
    THEN HTTPException(400, exc.detail)
    ELSE [mapped |-> FALSE, status |-> 0, detail |-> <<>>]

\* map_provider_error(exc): an HTTPException, or None (mapped = FALSE)
map_provider_error(exc) ==
    IF exc.cls = "OpenAIAuthenticationError"
    THEN HTTPException(401, <<"INVALID_KEY_DETAIL">>)
    ELSE IF exc.cls \in {"GroqRateLimitError", "OpenAIRateLimitError"}
    THEN HTTPException(429, <<"GROQ_RATE_LIMIT_DETAIL">>)
    ELSE IF exc.cls = "OpenAIBadRequestError"
    THEN IF DetailContains(exc.detail, "model")
              /\ DetailContains(exc.detail, "decommission")
         THEN HTTPException(503, <<"GROQ_MODEL_UNAVAILABLE_DETAIL">>)
         ELSE HTTPException(400, exc.detail)
    ELSE [mapped |-> FALSE, status |-> 0, detail |-> <<>>]

\* what chain.ainvoke gives generate_answer: a ChatResponse instance, a dict
\* (with or without each of the two required fields), None, or an exception
ModelResults ==
    [kind : {"ChatResponse"}, answer : {<<"x">>, Marker}, citations : {<<>>, <<1>>}]
    \cup [kind : {"dict"}, has_answer : BOOLEAN, has_citations : BOOLEAN,
          answer : {<<"x">>}, citations : {<<1>>}]
    \cup {[kind |-> "None"]}
    \cup [kind : {"raises"}, exc : [cls : ExceptionClasses \ {"ValidationError", "RuntimeError"},
                                    detail : Details]]

\* ChatResponse.model_validate(result) succeeds
Validates(result) ==
    \/ result.kind = "ChatResponse"
    \/ result.kind = "dict" /\ result.has_answer /\ result.has_citations

GenerateAnswerSubstitutes(result) ==
    IF result.kind = "raises" THEN [raised |-> TRUE, exc |-> result.exc,
                                    answer |-> <<>>, citations |-> <<>>]
    ELSE IF Validates(result)
    THEN [raised |-> FALSE, exc |-> NoException,
          answer |-> _sanitize_answer_text(result.answer),
          citations |-> result.citations]
    ELSE [raised |-> FALSE, exc |-> NoException, answer |-> <<>>, citations |-> <<>>]

\* generate_answer(query, retrieved_docs, llm) for the given model result
generate_answer(result) ==
    IF result.kind = "raises" THEN [raised |-> TRUE, exc |-> result.exc,
                                    answer |-> <<>>, citations |-> <<>>]
    ELSE IF Validates(result)
    THEN [raised |-> FALSE, exc |-> NoException,
          answer |-> _sanitize_answer_text(result.answer),
          citations |-> result.citations]
    ELSE [raised |-> TRUE, exc |-> [cls |-> "ValidationError", detail |-> <<>>],
          answer |-> <<>>, citations |-> <<>>]

\* `except Exception as exc: mapped_error = map_provider_error(exc); if
\* mapped_error: raise mapped_error from exc; raise`
Reraise(exc) ==
    IF map_provider_error(exc).mapped
    THEN [NoOutcome EXCEPT !.kind = "http_error",
                           !.status = map_provider_error(exc).status,
                           !.detail = map_provider_error(exc).detail]
    ELSE [NoOutcome EXCEPT !.kind = "exception", !.exc = exc]

InitChat ==
    /\ IdleRetriever
    /\ NoStream
    /\ NoAppenders
    /\ NoStoreReads
    /\ NoSessions
    /\ NoFurther
    /\ chat = [IdleChat EXCEPT !.pc = "get_llm"]

\* llm = get_llm(...): returns, or raises and goes through map_provider_error
ChatGetLLM ==
    /\ chat.pc = "get_llm"
    /\ \/ chat' = [chat EXCEPT !.pc = "retrieve"]
       \/ \E exc \in [cls : ExceptionClasses \ {"ValidationError"}, detail : Details] :
            chat' = [chat EXCEPT !.pc = "done", !.raised = exc, !.at = "get_llm",
                                 !.mapped = 1, !.outcome = Reraise(exc)]
    /\ UNCHANGED <<appenders, raw_file, reader, rebuilds, session_store, requests,
                   finished, rvars, svars, yvars>>

\* retrieved_docs = await retrieve_documents(...): a RuntimeError becomes
\* HTTPException(400, str(exc)); another exception goes through map_provider_error
ChatRetrieve ==
    /\ chat.pc = "retrieve"
    /\ \/ chat' = [chat EXCEPT !.pc = "generate"]
       \/ \E exc \in [cls : ExceptionClasses \ {"ValidationError"}, detail : Details] :
            chat' = [chat EXCEPT
                       !.pc = "done", !.raised = exc, !.at = "retrieve_documents",
                       !.mapped = IF exc.cls = "RuntimeError" THEN 0 ELSE 1,
                       !.outcome = IF exc.cls = "RuntimeError"
                                   THEN [NoOutcome EXCEPT !.kind = "http_error",
                                                          !.status = 400,
                                                          !.detail = exc.detail]
                                   ELSE Reraise(exc)]
    /\ UNCHANGED <<appenders, raw_file, reader, rebuilds, session_store, requests,
                   finished, rvars, svars, yvars>>

\* return await generate_answer(...), or its exception through map_provider_error
ChatGenerate ==
    /\ chat.pc = "generate"
    /\ \E result \in ModelResults :
         chat' = IF generate_answer(result).raised
                 THEN [chat EXCEPT !.pc = "done", !.result = result,
                                   !.raised = generate_answer(result).exc,
                                   !.at = "generate_answer", !.mapped = 1,
                                   !.outcome = Reraise(generate_answer(result).exc)]
                 ELSE [chat EXCEPT !.pc = "done", !.result = result,
                                   !.outcome = [NoOutcome EXCEPT
                                       !.kind = "response",
                                       !.status = 200,
                                       !.answer = generate_answer(result).answer,
                                       !.citations = generate_answer(result).citations]]
    /\ UNCHANGED <<appenders, raw_file, reader, rebuilds, session_store, requests,
                   finished, rvars, svars, yvars>>

NextChat ==
    \/ ChatGetLLM
    \/ ChatRetrieve
    \/ ChatGenerate

SpecChat == InitChat /\ [][NextChat]_vars

(* ---- get_runtime_config (main.py), the weights of the ensemble -------- *)
\* a < b on floats: false when either side is nan
FloatLess(a, b) ==
    /\ a.kind # "nan" /\ b.kind # "nan"
    /\ \/ a.kind = "-inf" /\ b.kind # "-inf"
       \/ b.kind = "inf" /\ a.kind # "inf"
       \/ a.kind = "num" /\ b.kind = "num" /\ a.v < b.v

\* Python's min(a, b) and max(a, b): the first argument unless the second is
\* smaller (larger)
PyMin(a, b) == IF FloatLess(b, a) THEN b ELSE a

PyMax(a, b) == IF FloatLess(a, b) THEN b ELSE a

clamp_int(value, minimum, maximum) == Max(minimum, Min(maximum, value))

ClampLowerOnly(value, minimum, maximum) == PyMax(minimum, value)

ClampValueFirst(value, minimum, maximum) == PyMax(PyMin(value, maximum), minimum)

clamp_float(value, minimum, maximum) == PyMax(minimum, PyMin(maximum, value))

\* 1 - dense_weight
OneMinus(w) ==
    CASE w.kind = "num" -> Num(1000 - w.v)
      [] w.kind = "inf" -> Float("-inf", 0)
      [] w.kind = "-inf" -> Float("inf", 0)
      [] OTHER -> w

\* weights=[dense_weight, 1 - dense_weight]
EnsembleWeights(dense_weight) == <<dense_weight, OneMinus(dense_weight)>>

\* values of the X-Dense-K and X-BM25-K headers
IntHeaders == {-1, 0, MIN_RETRIEVER_K, MIN_RETRIEVER_K + 1, MAX_RETRIEVER_K,
               MAX_RETRIEVER_K + 1}

\* values of the X-Dense-Weight header
FloatHeaders == {Num(v) : v \in {-1000, 0, MIN_DENSE_WEIGHT - 1, MIN_DENSE_WEIGHT,
                                 DEFAULT_DENSE_WEIGHT, MAX_DENSE_WEIGHT,
                                 MAX_DENSE_WEIGHT + 1, 1000, 2000}}
                \cup {Float("nan", 0), Float("inf", 0), Float("-inf", 0)}

\* the ranked lists a retriever can return for k: distinct chunks, at most k
RankedLists(k) ==
    {l \in UNION {[1..n -> 1..MaxHits] : n \in 0..Min(k, MaxHits)} :
        \A i, j \in 1..Len(l) : i # j => l[i] # l[j]}

\* the constant added to a rank by the ensemble's rank fusion
RankOffset == 60

RECURSIVE RankProduct(_)
RankProduct(n) == IF n = 0 THEN 1 ELSE (n + RankOffset) * RankProduct(n - 1)

\* 1 / (rank + RankOffset), as a multiple of 1 / RankProduct(MaxHits)
RankScore(rank) == RankProduct(MaxHits) \div (rank + RankOffset)

\* the rank of a chunk in a list, 0 when absent
RankIn(list, c) == IF \E i \in 1..Len(list) : list[i] = c
                   THEN CHOOSE i \in 1..Len(list) : list[i] = c
                   ELSE 0

\* what one list contributes to a chunk's fused score
Contribution(weight, list, c) ==
    IF RankIn(list, c) = 0 THEN 0 ELSE weight.v * RankScore(RankIn(list, c))

\* the fused score of every chunk: the weighted contributions of the lists add up
FusedScores(weights, dense_list, sparse_list) ==
    [c \in 1..MaxHits |-> Contribution(weights[1], dense_list, c)
                            + Contribution(weights[2], sparse_list, c)]

InitRuntime ==
    /\ IdleRetriever
    /\ NoStream
    /\ NoAppenders
    /\ NoStoreReads
    /\ NoSessions
    /\ NoChat
    /\ side = IdleSide
    /\ reform = IdleReform
    /\ NoTurn
    /\ runtime = [IdleRuntime EXCEPT !.pc = "headers"]

ChunkOverlapUnchecked(chunk_size, chunk_overlap) == chunk_overlap

\* `if chunk_overlap >= chunk_size: chunk_overlap = max(MIN_CHUNK_OVERLAP, chunk_size // 2)`
ChunkOverlap(chunk_size, chunk_overlap) ==
    IF chunk_overlap >= chunk_size
    THEN Max(MIN_CHUNK_OVERLAP, chunk_size \div 2)
    ELSE chunk_overlap

\* get_runtime_config for one request's headers
GetRuntimeConfig ==
    /\ runtime.pc = "headers"
    /\ \E X_Dense_K \in IntHeaders, X_BM25_K \in IntHeaders, X_Dense_Weight \in FloatHeaders :
         runtime' = [runtime EXCEPT
            !.pc = "configured",
            !.chunk_size = clamp_int(runtime.X_Chunk_Size, MIN_CHUNK_SIZE, MAX_CHUNK_SIZE),
            !.chunk_overlap =
                ChunkOverlap(clamp_int(runtime.X_Chunk_Size, MIN_CHUNK_SIZE, MAX_CHUNK_SIZE),
                             clamp_int(runtime.X_Chunk_Overlap, MIN_CHUNK_OVERLAP,
                                       MAX_CHUNK_OVERLAP)),
            !.header = X_Dense_Weight,
            !.dense_k = clamp_int(X_Dense_K, MIN_RETRIEVER_K, MAX_RETRIEVER_K),
            !.bm25_k = clamp_int(X_BM25_K, MIN_RETRIEVER_K, MAX_RETRIEVER_K),
            !.dense_weight = clamp_float(X_Dense_Weight, Num(MIN_DENSE_WEIGHT),
                                         Num(MAX_DENSE_WEIGHT))]
    /\ UNCHANGED <<rvars, svars, xvars, side, reform, turn, fmt>>

\* _build_hybrid_retriever with both retrievers present: the ensemble and its weights
BuildEnsemble ==
    /\ runtime.pc = "configured"
    /\ runtime' = [runtime EXCEPT !.pc = "built",
                                  !.weights = EnsembleWeights(runtime.dense_weight)]
    /\ UNCHANGED <<rvars, svars, xvars, side, reform, turn, fmt>>

\* retriever.invoke(query): the two retrievers answer, the ensemble fuses
InvokeEnsemble ==
    /\ runtime.pc = "built"
    /\ \E dense_list \in RankedLists(runtime.dense_k),
          sparse_list \in RankedLists(runtime.bm25_k) :
         runtime' = [runtime EXCEPT
            !.pc = "done",
            !.dense_list = dense_list,
            !.sparse_list = sparse_list,
            !.fused = FusedScores(runtime.weights, dense_list, sparse_list)]
    /\ UNCHANGED <<rvars, svars, xvars, side, reform, turn, fmt>>

NextRuntime ==
    \/ GetRuntimeConfig
    \/ BuildEnsemble
    \/ InvokeEnsemble

SpecRuntime == InitRuntime /\ [][NextRuntime]_vars

\* values of the X-Chunk-Size and X-Chunk-Overlap headers
ChunkSizeHeaders == {-1, 0, MIN_CHUNK_SIZE - 1, MIN_CHUNK_SIZE, MIN_CHUNK_SIZE + 1,
                     DEFAULT_CHUNK_SIZE, MAX_CHUNK_SIZE,
                     MAX_CHUNK_SIZE + 1}

ChunkOverlapHeaders == {-1, 0, MIN_CHUNK_OVERLAP - 1, MIN_CHUNK_OVERLAP,
                        DEFAULT_CHUNK_OVERLAP, MAX_CHUNK_OVERLAP - 1,
                        MAX_CHUNK_OVERLAP, MAX_CHUNK_OVERLAP + 1, MAX_CHUNK_SIZE + 1}

\* an upload request with its chunking headers
InitConfig ==
    /\ IdleRetriever
    /\ NoStream
    /\ NoAppenders
    /\ NoStoreReads
    /\ NoSessions
    /\ NoChat
    /\ side = IdleSide
    /\ reform = IdleReform
    /\ NoTurn
    /\ \E X_Chunk_Size \in ChunkSizeHeaders, X_Chunk_Overlap \in ChunkOverlapHeaders :
         runtime = [IdleRuntime EXCEPT !.pc = "headers",
                                       !.X_Chunk_Size = X_Chunk_Size,
                                       !.X_Chunk_Overlap = X_Chunk_Overlap]

SpecConfig == InitConfig /\ [][GetRuntimeConfig]_vars

(* ---- the side channel of stream_answer_events, fragment by fragment ---- *)
\* the tool_call_chunks a model can send
SideChunks ==
    {ToolChunk("CitationTool", index, args) :
        index \in {0 - 1, 0, 1},
        args \in {"", " ", "open", "c1", "bad", "close", "lopen", "lclose", "deep"}}
    \cup {ToolChunk("None", 0, args) : args \in {"c1", "close"}}
    \cup {ToolChunk("other", index, "c1") : index \in {0, 1}}

InitSide ==
    /\ IdleRetriever
    /\ NoStream
    /\ NoAppenders
    /\ NoStoreReads
    /\ NoSessions
    /\ NoChat
    /\ runtime = IdleRuntime
    /\ reform = IdleReform
    /\ NoTurn
    /\ \E script \in UNION {[1..n -> SideChunks] : n \in 0..MaxFrags} :
         side = [IdleSide EXCEPT !.pc = "streaming", !.script = script]

\* the loop body for one chunk: _accumulate_tool_call_args(chunk, buffers)
SideAccumulate ==
    /\ side.pc = "streaming"
    /\ side.pos < Len(side.script)
    /\ side' = [side EXCEPT
                  !.pos = @ + 1,
                  !.buffers = _accumulate_tool_call_args(side.script[side.pos + 1],
                                                         side.buffers)]
    /\ UNCHANGED <<rvars, svars, xvars, runtime, reform, turn, fmt>>

\* after the loop: citations = _parse_citations_from_buffers(buffers), outside
\* any try, so that an exception of it ends the stream
SideParse ==
    /\ side.pc = "streaming"
    /\ side.pos = Len(side.script)
    /\ side' = IF ParseRaises(side.buffers)
               THEN [side EXCEPT !.pc = "parsed", !.failed = TRUE]
               ELSE [side EXCEPT !.pc = "parsed",
                        !.citations = _parse_citations_from_buffers(side.buffers)]
    /\ UNCHANGED <<rvars, svars, xvars, runtime, reform, turn, fmt>>

NextSide ==
    \/ SideAccumulate
    \/ SideParse

SpecSide == InitSide /\ [][NextSide]_vars

(* ---- chat_stream: reformulate_query, retrieve_documents, their errors --- *)
\* the text of a message part or of a string content
PartTexts == {<<>>, <<" ">>, <<"r">>}

\* the parts of a list content: a string, a dict with a string under "text",
\* a dict without one, anything else
ContentParts == [kind : {"str", "dict"}, text : PartTexts]
                \cup {[kind |-> "dict_without_text"], [kind |-> "other"]}

\* getattr(result, "content", ""): a string, a list of parts, or another value
Contents == [kind : {"str"}, text : PartTexts \cup {<<" ", "r", " ">>}]
            \cup [kind : {"list"}, parts : UNION {[1..n -> ContentParts] : n \in 0..MaxParts}]
            \cup {[kind |-> "none"]}

RECURSIVE JoinParts(_)
JoinParts(parts) ==
    IF parts = <<>> THEN <<>>
    ELSE (IF Head(parts).kind \in {"str", "dict"} THEN Head(parts).text ELSE <<>>)
         \o JoinParts(Tail(parts))

\* _extract_text_from_content(content)
_extract_text_from_content(content) ==
    IF content.kind = "str" THEN content.text
    ELSE IF content.kind = "list" THEN JoinParts(content.parts)
    ELSE <<>>

ReformulateKeepsBlank(raw_query, content) == _extract_text_from_content(content)

\* reformulate_query with a non-empty history, for the content the model returned
reformulate_query(raw_query, content) ==
    IF Strip(_extract_text_from_content(content)) # <<>>
    THEN Strip(_extract_text_from_content(content))
    ELSE raw_query

\* the except clauses after reformulation and retrieval: `except RuntimeError`
\* takes every RuntimeError, whoever raised it
RetrievalError(exc) ==
    IF exc.cls = "RuntimeError"
    THEN [NoOutcome EXCEPT !.kind = "http_error", !.status = 400, !.detail = exc.detail]
    ELSE Reraise(exc)

\* the except clause that handled exc
HandlerOf(exc) ==
    IF exc.cls = "RuntimeError" THEN "except RuntimeError" ELSE "map_provider_error"

\* exceptions of the model or embedding provider; RuntimeError stands for it
\* and its subclasses (torch and httpx raise them, NotImplementedError is one)
ProviderExceptions == [cls : ExceptionClasses \ {"ValidationError"}, detail : Details]

\* the RuntimeError of _retrieve_documents and _build_hybrid_retriever
NotReadyError == [cls |-> "RuntimeError", detail |-> <<"Upload", "documents", "first">>]

InitReform ==
    /\ IdleRetriever
    /\ NoStream
    /\ NoAppenders
    /\ NoStoreReads
    /\ NoSessions
    /\ NoChat
    /\ runtime = IdleRuntime
    /\ side = IdleSide
    /\ NoTurn
    /\ \E chat_history \in BOOLEAN, raw_query \in {<<"q">>, <<" ", "q", " ">>} :
         reform = [IdleReform EXCEPT !.pc = "start", !.chat_history = chat_history,
                                     !.raw_query = raw_query,
                                     !.retrieval_query = raw_query]

\* `if chat_history:` the model is asked for a reformulation
ReformulateCall ==
    /\ reform.pc = "start"
    /\ reform' = IF reform.chat_history
                 THEN [reform EXCEPT !.pc = "reformulating", !.calls = @ + 1]
                 ELSE [reform EXCEPT !.pc = "retrieving"]
    /\ UNCHANGED <<rvars, svars, xvars, runtime, side, turn, fmt>>

\* chain.ainvoke returns a message, or raises
ReformulateReturn ==
    /\ reform.pc = "reformulating"
    /\ \/ \E content \in Contents :
            reform' = [reform EXCEPT
                         !.pc = "retrieving", !.content = content,
                         !.retrieval_query = reformulate_query(reform.raw_query, content)]
       \/ \E exc \in ProviderExceptions :
            reform' = [reform EXCEPT
                         !.pc = "done", !.raised = exc, !.origin = "provider",
                         !.handler = HandlerOf(exc),
                         !.outcome = RetrievalError(exc)]
    /\ UNCHANGED <<rvars, svars, xvars, runtime, side, turn, fmt>>

\* retrieve_documents returns documents, raises NotReady, or a provider
\* (embeddings, vector store) raises
RetrieveReturn ==
    /\ reform.pc = "retrieving"
    /\ \/ reform' = [reform EXCEPT !.pc = "done",
                                    !.outcome = [NoOutcome EXCEPT !.kind = "documents"]]
       \/ \E origin \in {"NotReady", "provider"} :
            \E exc \in IF origin = "NotReady" THEN {NotReadyError} ELSE ProviderExceptions :
                reform' = [reform EXCEPT
                             !.pc = "done", !.raised = exc, !.origin = origin,
                             !.handler = HandlerOf(exc),
                             !.outcome = RetrievalError(exc)]
    /\ UNCHANGED <<rvars, svars, xvars, runtime, side, turn, fmt>>

NextReform ==
    \/ ReformulateCall
    \/ ReformulateReturn
    \/ RetrieveReturn

SpecReform == InitReform /\ [][NextReform]_vars

(* ------ chat_stream and event_generator (main.py): one turn ------------ *)
\* HumanMessage(content=...), AIMessage(content=...)
HumanMessage(content) == [role |-> "human", content |-> content]

AIMessage(content) == [role |-> "ai", content |-> content]

\* an event of stream_answer_events, or the exception it raises instead
StreamEvent(type, answer) == [type |-> type, answer |-> answer]

\* what a stream does: token events, then its final event or an exception
TurnScripts ==
    {[i \in 1..n |-> StreamEvent("token", "")] \o <<end>> :
        n \in 0..MaxTokens,
        end \in {StreamEvent("final", a) : a \in {"", "a1"}}
                 \cup {StreamEvent("raise", "")}}

\* a history of n earlier messages
OldHistory(n) ==
    [j \in 1..n |-> IF j % 2 = 1 THEN HumanMessage("old") ELSE AIMessage("old")]

\* session_store when the first request arrives: empty, one session with one
\* turn, or a session with a full history next to another session
TurnStores ==
    {<<>>,
     <<[id |-> 1, history |-> OldHistory(2)]>>,
     <<[id |-> 1, history |-> OldHistory(MAX_CHAT_HISTORY_MESSAGES_PER_SESSION)],
       [id |-> 2, history |-> OldHistory(2)]>>}

InitTurn ==
    /\ IdleRetriever
    /\ NoStream
    /\ NoAppenders
    /\ NoStoreReads
    /\ NoChat
    /\ runtime = IdleRuntime
    /\ side = IdleSide
    /\ reform = IdleReform
    /\ fmt = IdleFmt
    /\ requests = [r \in 1..MaxInFlight |-> IdleRequest]
    /\ finished = NoFinished
    /\ session_store \in TurnStores
    /\ turn = IdleTurn

\* chat_stream is called: session_id, chat_history = session_store.get(...),
\* retrieval_query = request.query
TurnStart ==
    /\ turn.pc = "idle"
    /\ turn.served < MaxTurns
    /\ \E session_id \in {1, 3}, query \in {"q1", "q2"}, script \in TurnScripts :
         turn' = [IdleTurn EXCEPT
                    !.pc = "retrieving", !.session_id = session_id,
                    !.query = query, !.retrieval_query = query,
                    !.chat_history = HistoryOf(session_store, session_id),
                    !.script = script, !.before = session_store,
                    !.served = turn.served]
    /\ UNCHANGED <<rvars, svars, xvars, runtime, side, reform, fmt>>

\* the reformulation (only with a history) and the retrieval: the documents
\* are returned, or an exception ends the request with an HTTP error response
TurnRetrieve ==
    /\ turn.pc = "retrieving"
    /\ \E outcome \in {"documents", "NotReady", "other"},
          standalone \in {turn.query, "standalone"} :
         turn' = IF outcome = "documents"
                 THEN [turn EXCEPT !.pc = "await_first",
                         !.retrieval_query = IF turn.chat_history # <<>>
                                             THEN standalone ELSE turn.query]
                 ELSE [turn EXCEPT !.pc = "closed", !.last = "http_error"]
    /\ UNCHANGED <<rvars, svars, xvars, runtime, side, reform, fmt>>

\* first_event = await anext(stream_events): an exception becomes an HTTP
\* error response
TurnFirstEvent ==
    /\ turn.pc = "await_first"
    /\ turn' = IF turn.script[1].type = "raise"
               THEN [turn EXCEPT !.pc = "closed", !.last = "http_error"]
               ELSE [turn EXCEPT !.pc = "forwarding", !.pos = 0]
    /\ UNCHANGED <<rvars, svars, xvars, runtime, side, reform, fmt>>

\* event_generator sends first_event, then each event of `async for event in
\* stream_events`; a final event sets final_answer; an exception of the stream
\* is sent as an error event and the generator returns
TurnForward ==
    /\ turn.pc = "forwarding"
    /\ turn.pos < Len(turn.script)
    /\ LET event == turn.script[turn.pos + 1]
       IN turn' = IF event.type = "raise"
                  THEN [turn EXCEPT !.pc = "closed", !.last = "error"]
                  ELSE [turn EXCEPT !.pos = @ + 1, !.last = event.type,
                           !.final_answer = IF event.type = "final"
                                            THEN event.answer ELSE @]
    /\ UNCHANGED <<rvars, svars, xvars, runtime, side, reform, fmt>>

TurnRecordStoresStandalone ==
    /\ turn.pc = "forwarding"
    /\ turn.pos = Len(turn.script)
    /\ session_store' =
          EvictSessions(
              WriteTurn(SetDefault(session_store, turn.session_id), turn.session_id,
                        HumanMessage(turn.retrieval_query),
                        AIMessage(turn.final_answer)),
              turn.session_id)
    /\ turn' = [turn EXCEPT !.pc = "closed", !.last = "DONE"]
    /\ UNCHANGED <<rvars, svars, appenders, raw_file, reader, rebuilds, requests,
                   finished, chat, runtime, side, reform, fmt>>

\* the stream is exhausted: history = session_store.setdefault(session_id, []),
\* the two appends, the trim, the eviction of old sessions, then [DONE]
TurnRecord ==
    /\ turn.pc = "forwarding"
    /\ turn.pos = Len(turn.script)
    /\ session_store' =
          EvictSessions(
              WriteTurn(SetDefault(session_store, turn.session_id), turn.session_id,
                        HumanMessage(turn.query), AIMessage(turn.final_answer)),
              turn.session_id)
    /\ turn' = [turn EXCEPT !.pc = "closed", !.last = "DONE"]
    /\ UNCHANGED <<rvars, svars, appenders, raw_file, reader, rebuilds, requests,
                   finished, chat, runtime, side, reform, fmt>>

\* the response is over; the next request can start
TurnReturn ==
    /\ turn.pc = "closed"
    /\ turn' = [IdleTurn EXCEPT !.served = turn.served + 1]
    /\ UNCHANGED <<rvars, svars, xvars, runtime, side, reform, fmt>>

NextTurn ==
    \/ TurnStart
    \/ TurnRetrieve
    \/ TurnFirstEvent
    \/ TurnForward
    \/ TurnRecord
    \/ TurnReturn

SpecTurn == InitTurn /\ [][NextTurn]_vars

(* ---- _format_context and _fallback_citations_from_docs (llm_chain.py) -- *)
\* A metadata value is its Python type and its text: None, a str, an int or a
\* float. A key that is missing reads as None (metadata.get).
PyNone == [kind |-> "none", v |-> ""]

PyStr(text) == [kind |-> "str", v |-> text]

PyInt(text) == [kind |-> "int", v |-> text]

PyFloat(text) == [kind |-> "float", v |-> text]

\* bool(x)
Truthy(x) ==
    /\ x.kind # "none"
    /\ ~(x.kind = "str" /\ x.v = "")
    /\ ~(x.kind = "int" /\ x.v = "0")

\* x or y
PyOr(x, y) == IF Truthy(x) THEN x ELSE y

\* str(x), also what an f-string prints
StrOf(x) == IF x.kind = "none" THEN "None" ELSE x.v

\* str.strip() on the texts of the model
StripText(text) ==
    IF text = " " THEN ""
    ELSE IF text = " uuid-b " THEN "uuid-b"
    ELSE IF text = " 3 " THEN "3"
    ELSE text

ZeroUUID == "00000000-0000-0000-0000-000000000000"

\* str(UUID(value)): the canonical lower-case form, or ValueError
UUIDOf(value) ==
    IF value \in {"uuid-a", "UUID-A"} THEN "uuid-a"
    ELSE IF value = "uuid-b" THEN "uuid-b"
    ELSE "ValueError"

\* _coerce_document_id(raw_id)
_coerce_document_id(raw_id) ==
    IF raw_id.kind = "none" THEN ZeroUUID
    ELSE LET value == StripText(StrOf(raw_id))
         IN IF value = "" THEN ZeroUUID
            ELSE IF UUIDOf(value) = "ValueError" THEN ZeroUUID
            ELSE UUIDOf(value)

\* _coerce_page_number(raw_page): int(raw_page), 0 on TypeError or ValueError
_coerce_page_number(raw_page) ==
    IF raw_page.kind = "none" THEN "0"
    ELSE IF raw_page.kind = "int" THEN raw_page.v
    ELSE IF raw_page.kind = "float"
         THEN (IF raw_page.v = "2.7" THEN "2" ELSE "0")
    ELSE IF StripText(raw_page.v) \in {"3", "4"} THEN StripText(raw_page.v)
    ELSE "0"

\* the metadata of a retrieved chunk: the keys written by process_pdf (source,
\* page, chunk_id), the keys of the citation schema, well formed or not
ChunkMetadata ==
    [document_id : {PyNone, PyStr(""), PyStr("uuid-a"), PyStr("UUID-A"), PyStr("bad")},
     chunk_id    : {PyNone, PyStr("uuid-b"), PyStr(" uuid-b ")},
     filename    : {PyNone, PyStr(""), PyStr("a.pdf")},
     source      : {PyNone, PyStr("b.pdf")},
     page_number : {PyNone, PyInt("0"), PyInt("3"), PyStr("3"), PyStr(" 3 "),
                    PyStr("x"), PyFloat("2.7")},
     page        : {PyNone, PyInt("0"), PyInt("4")}]

\* the three metadata lines _format_context prints for a chunk
ContextHeader(metadata) ==
    [document_id |-> StrOf(PyOr(PyOr(metadata.document_id, metadata.chunk_id),
                                PyStr(ZeroUUID))),
     filename    |-> StrOf(PyOr(PyOr(metadata.filename, metadata.source),
                                PyStr("unknown"))),
     page_number |-> StrOf(PyOr(PyOr(metadata.page_number, metadata.page),
                                PyInt("0")))]

\* the metadata of the citation _fallback_citations_from_docs builds for a chunk
FallbackMetadata(metadata) ==
    [document_id |-> _coerce_document_id(PyOr(metadata.document_id, metadata.chunk_id)),
     filename    |-> StrOf(PyOr(PyOr(metadata.filename, metadata.source),
                                PyStr("unknown"))),
     page_number |-> _coerce_page_number(PyOr(metadata.page_number, metadata.page))]

\* stream_answer_events is called with one retrieved chunk of non-blank text
InitFmt ==
    /\ IdleRetriever
    /\ NoStream
    /\ NoAppenders
    /\ NoStoreReads
    /\ NoSessions
    /\ NoChat
    /\ runtime = IdleRuntime
    /\ side = IdleSide
    /\ reform = IdleReform
    /\ turn = IdleTurn
    /\ \E metadata \in ChunkMetadata :
         fmt = [IdleFmt EXCEPT !.pc = "chunk", !.metadata = metadata]

\* context = _format_context(retrieved_docs)
FormatContext ==
    /\ fmt.pc = "chunk"
    /\ fmt' = [fmt EXCEPT !.pc = "formatted", !.header = ContextHeader(fmt.metadata)]
    /\ UNCHANGED <<rvars, svars, xvars, runtime, side, reform, turn>>

\* fallback_citations = _fallback_citations_from_docs(retrieved_docs)
FallbackCitations ==
    /\ fmt.pc = "formatted"
    /\ fmt' = [fmt EXCEPT !.pc = "cited", !.citation = FallbackMetadata(fmt.metadata)]
    /\ UNCHANGED <<rvars, svars, xvars, runtime, side, reform, turn>>

NextFmt ==
    \/ FormatContext
    \/ FallbackCitations

SpecFmt == InitFmt /\ [][NextFmt]_vars

(* ------ one process, and a Dense Index left by an earlier run --------- *)
\* the chunks of a Chroma collection written while dense retrieval was on;
\* the store file of that run is gone
LeftoverIndex == {MaxChunks + 1, MaxChunks + 2}

\* the process starts over the leftover collection, under any settings
InitLeftover ==
    /\ settings \in SettingsSet
    /\ store = <<>>
    /\ dense = LeftoverIndex
    /\ bm25_documents = <<>>
    /\ store_has_docs = "None"
    /\ ingested = 0
    /\ bm25_ingested = <<>>
    /\ restarts = 0
    /\ up = IdleUpload
    /\ q = IdleQuery
    /\ warm = WarmAtStart(settings)
    /\ NoStream
    /\ NoExtras

\* uploads, queries and the warm-up of one process, up to its next restart
NextProcess ==
    \/ NextIngest
    \/ QueryStart
    \/ QueryLazyLoad
    \/ QueryRebind
    \/ QueryCheckReady
    \/ QueryBuild
    \/ QueryReturn
    \/ WarmLoad
    \/ WarmRebind

\* one process from an empty persist directory
SpecProcess == Init /\ [][NextProcess]_vars

\* one process over the leftover collection
SpecLeftover == InitLeftover /\ [][NextProcess]_vars

InitAppend == IdleRetriever /\ NoStream /\ NoExtras

NextAppend ==
    \/ AppendOpen
    \/ AppendWrite
    \/ AppendClose

SpecAppend == InitAppend /\ [][NextAppend]_vars

(* ============================== claims ================================ *)
\* the cap M: documind_bm25_max_docs, or 5000 when that is not positive
CapM == IF settings.bm25_max_docs > 0 THEN settings.bm25_max_docs
        ELSE DefaultBM25MaxDocs

Quiescent == up.pc = "idle" /\ q.pc = "idle" /\ warm.pc \in {"off", "finished"}

C4_NotReadyWhenEmpty ==
    (q.pc = "done" /\ bm25_documents = <<>> /\ store = <<>> /\ dense = {})
        => q.outcome = "RuntimeError"

\* C5: _build_hybrid_retriever fuses only when both indexes are available,
\* returns the BM25 retriever alone (built from the whole corpus) when dense is
\* unavailable and the corpus is non-empty, the dense retriever alone when dense
\* is available and the corpus is empty or BM25 is disabled, and raises the
\* RuntimeError when neither is available.
C5_GracefulDegradation ==
    (q.pc = "done" /\ q.kind # "none") =>
        LET denseAvail  == settings.dense_enabled /\ q.embeddings
            sparseEmpty == q.seen = <<>> \/ ~settings.bm25_enabled
        IN /\ q.kind = "ensemble" => (denseAvail /\ q.seen # <<>> /\ settings.bm25_enabled)
           /\ (~denseAvail /\ q.seen # <<>>) =>
                 (q.kind = "bm25" /\ q.corpus = q.seen /\ q.dense_docs = {}
                    /\ q.outcome = "ok")
           /\ (denseAvail /\ sparseEmpty) =>
                 (q.kind = "dense" /\ q.corpus = <<>> /\ q.outcome = "ok")
           /\ (~denseAvail /\ sparseEmpty) =>
                 (q.kind = "RuntimeError" /\ q.outcome = "RuntimeError")

\* every case of the claim happens: BM25 alone although dense retrieval is
\* enabled (no embeddings given)
C5_Witness ==
    /\ q.pc = "done" /\ q.kind = "bm25"
    /\ settings.dense_enabled /\ ~q.embeddings
    /\ Len(q.corpus) > 0

\* no append and no upsert has failed: every chunk handed out is recorded in
\* the Chunk Store and, with dense retrieval enabled, in the Dense Index
NoFailedIngestion ==
    /\ Len(StoredChunks) = ingested
    /\ Len(store) = ingested
    /\ settings.dense_enabled => dense = 1..ingested

\* C7: in a process that was restarted after ingestions that all succeeded and
\* that has ingested nothing since (so its sparse corpus comes from
\* _initialize_retriever_from_disk alone), when the Chunk Store holds more chunks
\* than the sparse corpus, the sparse corpus is the most recent part of the
\* Chunk Store.
C7_SparseIsNewestPartOfStore ==
    (settings.bm25_enabled /\ Quiescent /\ restarts > 0 /\ bm25_ingested = <<>>
        /\ NoFailedIngestion
        /\ Len(StoredChunks) > Len(bm25_documents))
        => bm25_documents = LastN(StoredChunks, Len(bm25_documents))

\* C8: every chunk in the Dense Index is recorded in the Chunk Store.
C8_DenseSubsetOfStore == dense \subseteq Range(StoredChunks)

\* the operations a successful upload has completed, in order
ExpectedLog ==
    <<"append">> \o (IF settings.dense_enabled THEN <<"upsert">> ELSE <<>>)
                 \o (IF settings.bm25_enabled THEN <<"extend">> ELSE <<>>)

\* the bytes of chunk c's record are in the store file
Written(c) == \E i \in 1..Len(store) :
                 store[i].id = c /\ store[i].kind \in {"record", "garbage"}

\* C9: when upload_document returns success for a non-empty chunk list, the
\* append, the upsert (dense enabled) and the sparse extend (BM25 enabled) have
\* completed in that order for all its chunks; when the append or the upsert
\* raised, success is not returned and the sparse corpus was not extended.
C9_IngestOrder ==
    (up.pc = "done" /\ up.chunks # <<>>) =>
        /\ up.outcome = "success" =>
              /\ up.log = ExpectedLog
              /\ \A i \in 1..Len(up.chunks) : Written(up.chunks[i])
              /\ settings.dense_enabled => Range(up.chunks) \subseteq dense
              /\ settings.bm25_enabled =>
                    LastN(bm25_ingested, Len(up.chunks)) = up.chunks
        /\ up.outcome # "success" =>
              /\ up.outcome = "error"
              /\ Range(up.chunks) \cap Range(bm25_ingested) = {}
              /\ \A i \in 1..Len(up.log) : up.log[i] # "extend"

\* a successful upload with dense retrieval and BM25 both enabled
C9_Witness ==
    /\ up.pc = "done" /\ up.outcome = "success"
    /\ Len(up.chunks) > 1
    /\ settings.dense_enabled /\ settings.bm25_enabled
    /\ up.log = <<"append", "upsert", "extend">>

\* s contains m as a substring
Contains(s, m) ==
    \E p \in 1..(Len(s) - Len(m) + 1) : SubSeq(s, p, p + Len(m) - 1) = m

\* C2: when the text the model sends contains the marker string, the
\* concatenation of the token events yielded so far (hence every token event)
\* does not contain it.
C2_NoMarkerLeak ==
    Contains(streamed_text_buffer \o model_text, Marker)
        => ~Contains(events.tokens, Marker)

\* C3: the stream yields at most one final event and nothing after it, a run
\* that does not raise ends with exactly one final event, and the HTTP stream
\* is closed by one final event followed by [DONE] or by one error event,
\* never both.
C3_OneTerminalEvent ==
    /\ events.finals <= 1
    /\ (events.finals = 1) <=> (events.last = "final")
    /\ (stream_pc = "done") <=> (events.finals = 1)
    /\ http.finals + http.errors <= 1
    /\ http.dones = 1 => http.pc = "closed"
    /\ http.pc = "closed" =>
          \/ /\ http.finals = 1 /\ http.dones = 1 /\ http.errors = 0
             /\ http.last = "DONE"
          \/ /\ http.finals = 0 /\ http.dones = 0 /\ http.errors = 1
             /\ http.last = "error"

\* a stream of several tokens closed by its final event and [DONE]
C3_Witness ==
    /\ http.pc = "closed" /\ http.finals = 1 /\ http.last = "DONE"
    /\ events.tokens # <<>>
    /\ events.last_token # events.tokens

NoBufferParses ==
    \A k \in DOMAIN tool_call_argument_buffers :
        ~BufferParses(tool_call_argument_buffers[k])

\* one citation per non-blank chunk among the first 3 retrieved chunks, in rank
\* order, each snippet cut to at most 600 characters
ExpectedFallback(docs) ==
    LET nonblank == SelectSeq(Take(docs, MaxFallbackItems), LAMBDA d : d.len > 0)
    IN [i \in 1..Len(nonblank) |->
          Citation("doc", nonblank[i].id,
                   IF nonblank[i].len > SnippetMax THEN SnippetMax ELSE nonblank[i].len)]

\* C6 as claimed: whenever the stream has ended and no buffer parses, the final
\* event's citations are the fallback citations, whatever the streamed text.
C6_FallbackWhenNoPayload ==
    (stream_pc = "done" /\ NoBufferParses)
        => events.final.citations = ExpectedFallback(retrieved_docs)

\* C6 as amended: the same when the sanitized streamed text is not empty, or
\* generate_answer raised or returned no citations; with an empty streamed text
\* the citations that generate_answer returned are used.
C6_FallbackUnlessAnswerCitations ==
    (stream_pc = "done" /\ NoBufferParses) =>
        IF events.fallback_calls = 1 /\ ~events.fallback_response.raised
              /\ events.fallback_response.citations # <<>>
        THEN events.final.citations = events.fallback_response.citations
        ELSE events.final.citations = ExpectedFallback(retrieved_docs)

\* the fallback skipped a blank chunk, cut a long one and ignored the fourth
C6_Witness ==
    /\ stream_pc = "done" /\ NoBufferParses
    /\ events.via = "end"
    /\ DOMAIN tool_call_argument_buffers # {}
    /\ events.fallback_calls = 0
    /\ Len(retrieved_docs) > MaxFallbackItems
    /\ \E i \in 1..MaxFallbackItems : retrieved_docs[i].len = 0
    /\ \E i \in 1..MaxFallbackItems : retrieved_docs[i].len > SnippetMax
    /\ Len(events.final.citations) = MaxFallbackItems - 1

\* C10: a query never builds its BM25 retriever from a corpus that holds more
\* than M chunks (the corpus between extend and evict). Stated for a corpus
\* without repeated chunks, so that the excess comes from the extend alone.
C10_QuerySnapshotWithinCap ==
    (q.pc = "done" /\ q.kind \in {"bm25", "ensemble"}
        /\ Cardinality(Range(q.corpus)) = Len(q.corpus))
        => Len(q.corpus) <= CapM

\* the JSON texts of the file, in file order, as the worker that wrote each
RecordOwners(raw) ==
    LET texts == SelectSeq(raw, LAMBDA p : p.part = "json")
    IN [i \in 1..Len(texts) |-> texts[i].w]

\* C11: when two concurrent append calls have both returned, every line of the
\* store file holds exactly one record (none torn, merged or blank), and the
\* records of each call form one contiguous block of the file.
C11_AppendAtomicPerCall ==
    (\A w \in 1..MaxWriters : appenders[w].pc \in {"idle", "closed"}) =>
        /\ \A i \in 1..Len(SplitLines(raw_file, <<>>)) :
              Len(SplitLines(raw_file, <<>>)[i]) = 1
        /\ \A i, j, k \in 1..Len(RecordOwners(raw_file)) :
              (i < j /\ j < k /\ RecordOwners(raw_file)[i] = RecordOwners(raw_file)[k])
                  => RecordOwners(raw_file)[j] = RecordOwners(raw_file)[i]

\* what a call with argument max_documents has to return for the file `store`
ExpectedRead(max_documents) ==
    IF max_documents = <<>> THEN StoredChunks
    ELSE IF max_documents[1] <= 0 THEN <<>>
    ELSE Take(StoredChunks, max_documents[1])

\* C12: every call of _extract_documents_from_sparse_store(max_documents=n)
\* returns the valid stored chunks in storage order cut to the first n: all of
\* them for None, none for n <= 0.
C12_ReadIsPrefixOfStore ==
    reader.called =>
        /\ ~reader.raised
        /\ reader.documents = ExpectedRead(reader.max_documents)

\* C13: loading never fails the whole load: a missing file gives the empty list,
\* and a load without limit returns every valid record of the file and no
\* line that is blank, malformed or without a non-blank string content.
C13_LoadSkipsBadLines ==
    reader.called =>
        /\ ~reader.raised
        /\ ~reader.exists => reader.documents = <<>>
        /\ reader.max_documents = <<>> =>
              \A i \in 1..Len(store) :
                  (store[i].id \in Range(reader.documents)) <=> IsValidRecord(store[i])

C16_FinalFromPartialText ==
    /\ events.via = "except" =>
          /\ stream_pc = "done"
          /\ events.finals = 1
          /\ events.final.answer = _sanitize_answer_text(streamed_text_buffer)
          /\ events.final.answer # <<>>
          /\ events.final.citations = ExpectedFallback(retrieved_docs)
    /\ stream_pc = "raised" =>
          /\ events.finals = 0
          /\ _sanitize_answer_text(streamed_text_buffer) = <<>>

\* the stream raised after some text and after a side-channel payload that parses
C16_Witness ==
    /\ events.via = "except"
    /\ events.final.answer # <<>>
    /\ _parse_citations_from_buffers(tool_call_argument_buffers) # <<>>
    /\ events.final.citations # _parse_citations_from_buffers(tool_call_argument_buffers)

\* the history of the session the last finished request wrote, if still stored
WrittenHistory == HistoryOf(session_store, finished.session_id)

\* C17: after every completed streaming request each history holds at most 20
\* messages, the history just written is the last 20 of what it held plus the
\* two new messages, and session_store holds at most 200 sessions.
C17_SessionsBounded ==
    /\ Len(session_store) <= MAX_IN_MEMORY_SESSIONS
    /\ \A i \in 1..Len(session_store) :
          Len(session_store[i].history) <= MAX_CHAT_HISTORY_MESSAGES_PER_SESSION
    /\ finished.count > 0 =>
          WrittenHistory =
              LastN(finished.history_before
                      \o <<2 * finished.count - 1, 2 * finished.count>>,
                    MAX_CHAT_HISTORY_MESSAGES_PER_SESSION)

\* a request on a session with a full history ended while the store was full
C17_Witness ==
    /\ finished.count > 0
    /\ Len(finished.history_before) = MAX_CHAT_HISTORY_MESSAGES_PER_SESSION
    /\ Len(session_store) = MAX_IN_MEMORY_SESSIONS
    /\ Len(WrittenHistory) = MAX_CHAT_HISTORY_MESSAGES_PER_SESSION

\* C18: the sessions a request evicts are the oldest ones of the store (a
\* prefix of the insertion order), some are evicted when the store exceeds 200
\* sessions, and the session the request wrote is still stored afterwards.
C18_EvictOldestNotCurrent ==
    finished.count > 0 =>
        /\ finished.evicted = Take(finished.ids_before, Len(finished.evicted))
        /\ SessionIds(session_store) = Drop(finished.ids_before, Len(finished.evicted))
        /\ Len(finished.ids_before) > MAX_IN_MEMORY_SESSIONS => finished.evicted # <<>>
        /\ \E i \in 1..Len(session_store) : session_store[i].id = finished.session_id
        /\ \A i \in 1..Len(finished.evicted) : finished.evicted[i] # finished.session_id

\* a request on a new session pushed the store over 200 and evicted the oldest
C18_Witness ==
    /\ finished.count > 0
    /\ Len(finished.ids_before) = MAX_IN_MEMORY_SESSIONS + 1
    /\ finished.evicted = <<finished.ids_before[1]>>
    /\ session_store[Len(session_store)].id = finished.session_id

\* C19: when the model's output does not validate as a ChatResponse, the chat
\* endpoint ends with the ValidationError of generate_answer, unmapped, and
\* returns no response, not even an empty one.
C19_InvalidOutputPropagates ==
    (chat.pc = "done" /\ chat.result.kind \in {"dict", "None"}
        /\ ~Validates(chat.result)) =>
        /\ chat.outcome.kind = "exception"
        /\ chat.outcome.exc.cls = "ValidationError"
        /\ chat.outcome.status = 0
        /\ chat.outcome.answer = <<>> /\ chat.outcome.citations = <<>>

\* the model returned a dict that has an answer but no citations
C19_Witness ==
    /\ chat.pc = "done"
    /\ chat.result.kind = "dict"
    /\ chat.result.has_answer /\ ~chat.result.has_citations
    /\ chat.at = "generate_answer"
    /\ chat.outcome.kind = "exception"

\* the messages of the model that name a decommissioned model
DecommissionedModelDetails ==
    {<<"The", "model", "has", "been", "decommissioned">>,
     <<"The", "Model", "X", "Has", "Been", "Decommissioned">>,
     <<"code", "MODEL_DECOMMISSIONED">>}

\* C20: an exception that went through map_provider_error ends as 401 for an
\* authentication error, 429 for a rate-limit error of either provider, 503
\* for a bad-request error that names a decommissioned model, 400 with the
\* provider's message for any other bad-request error, and propagates
\* unchanged otherwise; a decommissioned model is never reported as 400.
C20_ProviderErrorMapping ==
    (chat.pc = "done" /\ chat.mapped = 1) =>
        LET cls == chat.raised.cls
            out == chat.outcome
        IN /\ cls = "OpenAIAuthenticationError" =>
                 out.kind = "http_error" /\ out.status = 401
           /\ cls \in {"GroqRateLimitError", "OpenAIRateLimitError"} =>
                 out.kind = "http_error" /\ out.status = 429
           /\ (cls = "OpenAIBadRequestError"
                  /\ chat.raised.detail \in DecommissionedModelDetails) =>
                 out.kind = "http_error" /\ out.status = 503
           /\ (cls = "OpenAIBadRequestError"
                  /\ chat.raised.detail \notin DecommissionedModelDetails) =>
                 out.kind = "http_error" /\ out.status = 400
                     /\ out.detail = chat.raised.detail
           /\ cls \in {"ValidationError", "RuntimeError", "OtherError"} =>
                 out.kind = "exception" /\ out.exc = chat.raised
           /\ (out.kind = "http_error" /\ out.status = 400) =>
                 chat.raised.detail \notin DecommissionedModelDetails

\* a bad-request error whose message names the decommissioned model in capitals
C20_Witness ==
    /\ chat.pc = "done" /\ chat.mapped = 1
    /\ chat.raised.cls = "OpenAIBadRequestError"
    /\ chat.raised.detail = <<"code", "MODEL_DECOMMISSIONED">>
    /\ chat.outcome.status = 503

\* C21: after a fusion with weights dense_weight and 1 - dense_weight, a chunk
\* that is in both result lists has a fused score at least as high as the
\* score the same rank would give it in the dense list alone and in the
\* sparse list alone, and its score is the sum of the two.
C21_FusionMonotone ==
    runtime.pc = "done" =>
        \A c \in 1..MaxHits :
            (RankIn(runtime.dense_list, c) # 0 /\ RankIn(runtime.sparse_list, c) # 0) =>
                LET only_dense == FusedScores(runtime.weights, runtime.dense_list, <<>>)[c]
                    only_sparse == FusedScores(runtime.weights, <<>>, runtime.sparse_list)[c]
                IN /\ runtime.fused[c] >= only_dense
                   /\ runtime.fused[c] >= only_sparse
                   /\ runtime.fused[c] = only_dense + only_sparse

\* a chunk ranked first by the dense retriever and second by the sparse one
C21_Witness ==
    /\ runtime.pc = "done"
    /\ \E c \in 1..MaxHits : RankIn(runtime.dense_list, c) = 1
                               /\ RankIn(runtime.sparse_list, c) = 2
                               /\ runtime.fused[c] > 0

\* C27: for every value of the headers, get_runtime_config gives dense_k and
\* bm25_k in [2, 8] and a dense_weight that is a number in [0.2, 0.8]; the
\* weights passed to the ensemble are dense_weight and 1 - dense_weight, both
\* non-negative and with sum 1.
C27_RuntimeConfigInRange ==
    /\ runtime.pc \in {"configured", "built", "done"} =>
          /\ runtime.dense_k \in MIN_RETRIEVER_K..MAX_RETRIEVER_K
          /\ runtime.bm25_k \in MIN_RETRIEVER_K..MAX_RETRIEVER_K
          /\ runtime.dense_weight.kind = "num"
          /\ runtime.dense_weight.v >= MIN_DENSE_WEIGHT
          /\ runtime.dense_weight.v <= MAX_DENSE_WEIGHT
    /\ runtime.pc \in {"built", "done"} =>
          /\ Len(runtime.weights) = 2
          /\ runtime.weights[1] = runtime.dense_weight
          /\ runtime.weights[2].kind = "num"
          /\ runtime.weights[1].v >= 0 /\ runtime.weights[2].v >= 0
          /\ runtime.weights[1].v + runtime.weights[2].v = 1000

\* the header X-Dense-Weight: nan was clamped and the ensemble built
C27_Witness ==
    /\ runtime.pc = "built"
    /\ runtime.header.kind = "nan"
    /\ runtime.weights = <<Num(MAX_DENSE_WEIGHT), Num(1000 - MAX_DENSE_WEIGHT)>>

\* C22: a query that has run with BM25 enabled while the Chunk Store held at
\* most M valid chunks, after ingestions that all succeeded and with no upload
\* and no warm-up in progress, used a sparse corpus that contains every chunk
\* of the Chunk Store.
C22_SparseCorpusCoversStore ==
    (q.pc = "done" /\ q.outcome = "ok" /\ settings.bm25_enabled
        /\ up.pc = "idle" /\ warm.pc \in {"off", "finished"}
        /\ NoFailedIngestion
        /\ Len(StoredChunks) <= CapM)
        => Range(StoredChunks) \subseteq Range(q.seen)

\* C23: a step of _retrieve_documents starts a reload of the sparse corpus only
\* at its first statement and only when BM25 is enabled and the corpus is
\* empty; no step of it writes the Chunk Store; and while the corpus is
\* populated, a step of a query that is not completing a reload leaves the
\* corpus and the has-documents flag unchanged.
C23_ReloadOnlyWhenEmpty ==
    [][q' # q =>
        /\ q'.pc = "rebind" =>
              (q.pc = "start" /\ settings.bm25_enabled /\ bm25_documents = <<>>)
        /\ store' = store
        /\ (bm25_documents # <<>> /\ q.pc # "rebind") =>
              /\ bm25_documents' = bm25_documents
              /\ store_has_docs' = store_has_docs]_vars

\* a query past its first statement that found the corpus populated by an
\* upload of this process
C23_Witness ==
    /\ q.pc = "check"
    /\ bm25_documents # <<>> /\ bm25_documents = bm25_ingested
    /\ store_has_docs = "True"
    /\ up.pc = "idle"

\* C24: the model stream, once over (final yielded or exception raised), is
\* never started again and nothing more is read from the model; generate_answer
\* is called at most once, only by the code after the loop (the stream ended
\* without raising) and only when the sanitized text is empty; when it raises,
\* the stream still ends with a final event, whose answer is the fixed text.
C24_OneStreamOneFallback ==
    /\ [](/\ events.fallback_calls <= 1
          /\ events.fallback_calls = 1 =>
                /\ events.via = "end"
                /\ stream_pc = "done"
                /\ _sanitize_answer_text(streamed_text_buffer) = <<>>
          /\ (events.fallback_calls = 1 /\ events.fallback_response.raised) =>
                /\ events.last = "final" /\ events.finals = 1
                /\ events.final.answer = ProviderFailureAnswer)
    /\ [][(stream_pc \in {"done", "raised"} =>
               (/\ stream_pc' = stream_pc
                /\ model_text' = model_text
                /\ model_tools' = model_tools
                /\ events' = events))
           /\ (stream_pc' = "streaming" => stream_pc \in {"idle", "streaming"})]_vars

\* the stream ended with no text and generate_answer raised
C24_Witness ==
    /\ stream_pc = "done"
    /\ events.fallback_calls = 1
    /\ events.fallback_response.raised
    /\ events.final.answer = ProviderFailureAnswer
    /\ http.finals = 1

\* the fragments of the script that go to buffer key, in arrival order
ExpectedBuffer(script, key) ==
    LET kept == SelectSeq(script, LAMBDA c :
                    /\ c.name \in {"CitationTool", "None", ""}
                    /\ c.args # ""
                    /\ (IF c.index >= 0 THEN c.index ELSE 0) = key)
    IN [i \in 1..Len(kept) |-> kept[i].args]

\* the citations of buffer key: none when the buffer is empty or does not parse
ExpectedCitations(script, key) ==
    IF BufferParses(ExpectedBuffer(script, key))
    THEN BufferCitations(ExpectedBuffer(script, key))
    ELSE <<>>

\* C25: once the stream has ended and the buffers were parsed, the parse did
\* not fail, buffer k holds the accepted fragments of index k (no integer
\* index: 0) in arrival order, and the citations are those of buffer 0
\* followed by those of buffer 1, a buffer that is empty or does not parse
\* contributing none.
C25_SideChannelBestEffort ==
    side.pc = "parsed" =>
        /\ ~side.failed
        /\ \A key \in {0, 1} :
              IF ExpectedBuffer(side.script, key) = <<>>
              THEN key \notin DOMAIN side.buffers
              ELSE /\ key \in DOMAIN side.buffers
                   /\ side.buffers[key] = ExpectedBuffer(side.script, key)
        /\ side.citations = ExpectedCitations(side.script, 0)
                                \o ExpectedCitations(side.script, 1)

\* C30: when the model stream has ended without raising and at least one
\* buffer parses into a valid citation payload, the citations of the final
\* event are the parsed citations in index order, also when that list is empty.
C30_ParsedCitationsKept ==
    (stream_pc = "done" /\ events.via = "end"
        /\ \E key \in DOMAIN tool_call_argument_buffers :
               BufferParses(tool_call_argument_buffers[key]))
        => events.final.citations =
               _parse_citations_from_buffers(tool_call_argument_buffers)

\* the text of a content, written out per kind
TextOfContent(content) ==
    IF content.kind = "str" THEN content.text
    ELSE IF content.kind = "list"
    THEN LET texts == [i \in 1..Len(content.parts) |->
                          IF content.parts[i].kind \in {"str", "dict"}
                          THEN content.parts[i].text ELSE <<>>]
         IN IF Len(texts) = 0 THEN <<>>
            ELSE IF Len(texts) = 1 THEN texts[1]
            ELSE IF Len(texts) = 2 THEN texts[1] \o texts[2]
            ELSE texts[1] \o texts[2] \o texts[3]
    ELSE <<>>

\* C26: without history no model call is made and retrieval uses the raw query
\* unchanged; with history and a reformulation that has a non-blank text,
\* retrieval uses that text (without the whitespace around it); with history
\* and a reformulation whose text is empty or blank, or that has no text, it
\* uses the raw query unchanged.
C26_ReformulationFallback ==
    reform.pc \in {"retrieving", "done"} =>
        /\ ~reform.chat_history =>
              reform.calls = 0 /\ reform.retrieval_query = reform.raw_query
        /\ (reform.chat_history /\ reform.raised = NoException) =>
              /\ reform.calls = 1
              /\ (\E i \in 1..Len(TextOfContent(reform.content)) :
                      TextOfContent(reform.content)[i] # " ") =>
                    /\ reform.retrieval_query = Strip(TextOfContent(reform.content))
                    /\ reform.retrieval_query # <<>>
              /\ (\A i \in 1..Len(TextOfContent(reform.content)) :
                      TextOfContent(reform.content)[i] = " ") =>
                    reform.retrieval_query = reform.raw_query

\* history present, the model answered with blank parts only, and the raw
\* query, spaces included, went to retrieval
C26_Witness ==
    /\ reform.pc = "retrieving"
    /\ reform.chat_history /\ reform.calls = 1
    /\ reform.content.kind = "list" /\ Len(reform.content.parts) = MaxParts
    /\ reform.raw_query = <<" ", "q", " ">>
    /\ reform.retrieval_query = reform.raw_query

\* C29: the HTTP 400 that chat_stream builds from a RuntimeError is sent only
\* for the RuntimeError by which retrieval reports that there is no index
\* content, never for an exception raised by the model or embedding provider
\* during reformulation or retrieval.
C29_NotReadyOnlyFromRetriever ==
    (reform.pc = "done" /\ reform.handler = "except RuntimeError") =>
        reform.origin = "NotReady"

\* C28: when dense retrieval is disabled nothing touches the Dense Index: no
\* step changes it and no upload reaches the upsert, a rehydration (lazy or
\* warm-up) loads what it would load over an empty index, the has-documents
\* check lets a query through only on the store file, the corpus or the flag,
\* and no query builds a dense retriever or reads a chunk of the index
C28_DenseOffLeavesIndexAlone ==
    /\ [](~_dense_retrieval_enabled =>
            (/\ up.pc # "upsert"
             /\ \A i \in 1..Len(up.log) : up.log[i] # "upsert"
             /\ q.kind \notin {"dense", "ensemble"}
             /\ q.dense_docs = {}))
    /\ [][~_dense_retrieval_enabled =>
            (/\ dense' = dense
             /\ ((q.pc = "start" /\ q'.pc = "rebind")
                   => q'.loaded = InitializeLoad(store, {}))
             /\ ((warm.pc = "pending" /\ warm'.pc # "pending")
                   => warm'.loaded = InitializeLoad(store, {}))
             /\ ((q.pc = "check" /\ q'.pc = "build")
                   => (\/ _sparse_store_has_documents(store)
                       \/ bm25_documents # <<>>
                       \/ store_has_docs = "True")))]_vars

\* dense retrieval is off, the leftover index is not empty, and an upload and
\* a query have both finished over it
C28_Witness ==
    /\ ~_dense_retrieval_enabled
    /\ dense = LeftoverIndex
    /\ "append" \in Range(up.log)
    /\ up.pc = "done"
    /\ q.pc = "done"
    /\ q.kind = "bm25"

\* a is b[:Len(a)]
IsPrefix(a, b) == Len(a) <= Len(b) /\ SubSeq(b, 1, Len(a)) = a

\* C31: once the final event of a stream is yielded, the concatenation of the
\* token events of that stream (which only grows until then) is a prefix of
\* the answer of the final event.
C31_TokensPrefixOfFinal ==
    events.finals > 0 => IsPrefix(events.tokens, events.final.answer)

\* C32: a chunk that was ingested once (chunk ids are handed out once) stands
\* at most once in the in-memory sparse corpus, in every state of every
\* interleaving of uploads and queries (the warm-up is not configured).
C32_NoChunkTwiceInCorpus ==
    warm.pc = "off" =>
        \A i, j \in 1..Len(bm25_documents) :
            i # j => bm25_documents[i] # bm25_documents[j]

\* the chunks of the uploads that have returned success with BM25 enabled: those
\* handed to maybe_add_documents_to_bm25, but for the upload still in flight
CompletedChunks == Range(bm25_ingested) \ Range(up.chunks)

\* C33: the step of a lazy rehydration that rebinds _bm25_documents keeps in
\* the corpus every chunk of a completed upload that was in it.
C33_RebindKeepsCompletedUploads ==
    [][(q.pc = "rebind" /\ q'.pc # "rebind") =>
          (CompletedChunks \cap Range(bm25_documents)) \subseteq Range(bm25_documents')]_vars

\* the answer of the final event of the stream of the request
FinalEventAnswer == turn.script[Len(turn.script)].answer

\* C34: while a request runs, session_store is as the request found it; a
\* request that ended with an HTTP error response or an error event has left
\* it so; a request that ended with [DONE] has added to its own session the
\* raw query and then the answer of the final event (the history cut to its
\* last 20 messages) and has left the history of every other session alone.
C34_HistoryOnlyAfterNormalEnd ==
    turn.pc # "idle" =>
        IF turn.pc = "closed" /\ turn.last = "DONE"
        THEN LET h == HistoryOf(session_store, turn.session_id)
                 b == HistoryOf(turn.before, turn.session_id)
             IN /\ Len(h) = Min(MAX_CHAT_HISTORY_MESSAGES_PER_SESSION, Len(b) + 2)
                /\ LastN(h, 2) = <<HumanMessage(turn.query), AIMessage(FinalEventAnswer)>>
                /\ Take(h, Len(h) - 2) = LastN(b, Len(h) - 2)
                /\ \A i \in 1..Len(turn.before) :
                      turn.before[i].id # turn.session_id =>
                          HistoryOf(session_store, turn.before[i].id)
                              = turn.before[i].history
        ELSE session_store = turn.before

\* a request with a history, whose query was reformulated, has ended with
\* [DONE] after token events and a final event
C34_Witness ==
    /\ turn.pc = "closed" /\ turn.last = "DONE"
    /\ turn.chat_history # <<>>
    /\ turn.retrieval_query # turn.query
    /\ Len(turn.script) > 1
    /\ turn.served > 0

\* C35: when an upload with an empty chunk list has run in a process that has
\* ingested nothing, the Chunk Store, the Dense Index and the sparse corpus
\* are empty, the has-documents flag is not set to True, and a query that has
\* finished has failed with the NotReady RuntimeError.
C35_EmptyIngestChangesNothing ==
    (up.pc = "done" /\ up.chunks = <<>> /\ ingested = 0) =>
        /\ store = <<>> /\ dense = {} /\ bm25_documents = <<>>
        /\ store_has_docs # "True"
        /\ q.pc = "done" => q.outcome = "RuntimeError"

\* C36: the metadata of the fallback citation of a chunk (document_id,
\* filename, page_number) is the metadata _format_context printed for the same
\* chunk, whatever the chunk's metadata looks like.
C36_FallbackMetadataMatchesContext ==
    fmt.pc = "cited" => fmt.citation = fmt.header

\* C38: for every pair of X-Chunk-Size and X-Chunk-Overlap header values
\* get_runtime_config returns chunk_size in [400, 2200] and chunk_overlap in
\* [50, 400], with chunk_overlap strictly smaller than chunk_size.
C38_ChunkingInRange ==
    runtime.pc = "configured" =>
        /\ runtime.chunk_size \in MIN_CHUNK_SIZE..MAX_CHUNK_SIZE
        /\ runtime.chunk_overlap \in MIN_CHUNK_OVERLAP..MAX_CHUNK_OVERLAP
        /\ runtime.chunk_overlap < runtime.chunk_size

\* the smallest chunk size with the largest overlap: the overlap was replaced
\* by half the chunk size
C38_Witness ==
    /\ runtime.pc = "configured"
    /\ runtime.X_Chunk_Size <= MIN_CHUNK_SIZE
    /\ runtime.X_Chunk_Overlap >= MAX_CHUNK_OVERLAP
    /\ runtime.chunk_size = MIN_CHUNK_SIZE
    /\ runtime.chunk_overlap = MIN_CHUNK_SIZE \div 2

\* C37: when BM25 is disabled the in-memory sparse corpus is empty in every
\* state, _initialize_retriever_from_disk would bind it to the empty list
\* whatever the store holds, and no query builds a BM25 or an ensemble
\* retriever or reads a sparse corpus.
C37_NoSparseCorpusWhenDisabled ==
    ~settings.bm25_enabled =>
        /\ bm25_documents = <<>>
        /\ InitializeLoad(store, dense) = <<>>
        /\ q.kind \notin {"bm25", "ensemble"}
        /\ q.corpus = <<>> /\ q.seen = <<>>

\* BM25 is disabled, an upload of two chunks has returned success and a query
\* has been answered by the dense retriever alone
C37_Witness ==
    /\ ~settings.bm25_enabled
    /\ up.pc = "done" /\ up.outcome = "success" /\ Len(up.chunks) > 1
    /\ _sparse_store_has_documents(store)
    /\ q.pc = "done" /\ q.kind = "dense"

====
